---- MODULE Spec2Model ----
(***************************************************************************)
(* Model of the ntex-redis client: the connector's AUTH handshake          *)
(* (src/src/connector.rs), the shared pipelined Client and its read task   *)
(* (src/src/client.rs) and the exclusive SimpleClient (src/src/simple.rs). *)
(*                                                                         *)
(* A request is identified by the number of the call that produced it.     *)
(* The server takes the requests off the wire in order and answers each    *)
(* with one frame; the frame's kind is "val" (a non-error value), "OK"     *)
(* (+OK), "err" (a -ERR frame) or "bad" (bytes the codec rejects).         *)
(*                                                                         *)
(* The codec (src/src/codec.rs) is modelled byte by byte under CodecSpec,   *)
(* and the conversions of a Response (src/src/codec.rs,                     *)
(* src/src/cmd/pubsub.rs) under ConvSpec; each has its own initial states   *)
(* and leaves the client as constructed.                                    *)
(*                                                                         *)
(* Further specifications over the same variables: DropSpec (the handles   *)
(* of a shared Client are cloned and dropped), PushSpec (the server also   *)
(* sends frames that answer no request), SimpleSpec (exec and send of a    *)
(* SimpleClient interleaved), SubSpec (SubscriptionClient, the stream of   *)
(* src/src/simple.rs), ReclaimSpec (a SubscriptionClient turned back into  *)
(* a SimpleClient), TransportSpec (the Transport future of                 *)
(* src/src/transport.rs), PipelineSpec (the shared Client and the          *)
(* Transport side by side) and FramesSpec (the decoder on a buffer that    *)
(* holds several frames).                                                  *)
(***************************************************************************)
EXTENDS Integers, Sequences, FiniteSets, TLC

MaxCalls == 3   \* calls made on one connection (AUTH commands included)
MaxPw == 2      \* configured passwords

Ids == 1..MaxCalls
MaxPush == 1    \* frames nobody asked for, under PushSpec
MaxMsgs == 1    \* messages published to a subscription
MaxItems == 3   \* values returned by recv on a subscription

NoFrame == [req |-> 0, k |-> "none"]

VARIABLES
    flavor,     \* "shared" (connect) or "simple" (connect_simple); also
                \* "subscription" (after subscribe), "dropped" (subscribe
                \* failed), "transport" (a Transport future)
    passwords,  \* RedisConnector.passwords
    cpc,        \* position of the connect future: "start", "auth", "done"
    pwi,        \* index of the password whose AUTH is in flight
    authId,     \* call id of the AUTH in flight
    cres,       \* output of the connect future
    io,         \* the io stream: "open", "stopping" (shutdown initiated)
                \* or "stopped"; IoRef::is_closed is io # "open"
    wire,       \* requests encoded into the write buffer, not yet answered
    inbound,    \* frames the server sent, not yet decoded
    queue,      \* Client.queue: the senders of the inflight FIFO
    task,       \* the read task spawned by Client::new: "running" or "done"
    n,          \* number of calls made so far
    kind,       \* per call: "none", "exec", "call" (Service::call and
                \* flushdb), "auth", "sexec", "ssend", "tcall"
    isOpen,     \* per call: the is_open snapshot taken by Client::exec
    slot,       \* per call: state of the receiving side of its channel
    accepted,   \* history: requests encoded, in order
    peerGone,   \* history: the read task observed RecvError::PeerGone
    cin,        \* codec: the input, a Request to encode or bytes of the peer
    orig,       \* codec: all the bytes of the input, in order
    stream,     \* codec: the bytes that have not arrived yet
    buf,        \* codec: the read buffer handed to Codec::decode
    dres,       \* codec: the result of the last Codec::decode
    val,        \* conversion: the Response handed to TryFrom
    target,     \* conversion: the type asked for, "none" before the call
    ptr,        \* conversion: the pointer width of the build, 32 or 64
    out,        \* conversion: the result of try_from
    handles,    \* the number of Client handles (clones) that are alive
    pushed,     \* history: the frames the server sent that answer no request
    sent,       \* subscription, history: the frames the server sent, in order
    items,      \* subscription, history: what recv returned, in order
    rx          \* Transport: the submissions waiting in its mpsc channel

codecVars == <<cin, orig, stream, buf, dres>>
convVars == <<val, target, ptr, out>>
subVars == <<sent, items>>
extVars == <<handles, pushed, subVars, rx>>
pureVars == <<codecVars, convVars, extVars>>

vars == <<flavor, passwords, cpc, pwi, authId, cres, io, wire, inbound,
          queue, task, n, kind, isOpen, slot, accepted, peerGone,
          codecVars, convVars, extVars>>

connVars == <<flavor, passwords>>
hsVars == <<cpc, pwi, authId, cres>>
clientHs == <<connVars, hsVars>>
clientSt == <<connVars, hsVars, io, wire, inbound, queue, task, n, kind,
              isOpen, slot, accepted, peerGone>>
clientVars == <<connVars, hsVars, io, wire, inbound, queue, task, n, kind,
                isOpen, slot, accepted, peerGone, extVars>>

RECURSIVE SeqsUpTo(_, _)
SeqsUpTo(S, len) ==
    IF len = 0 THEN {<<>>}
    ELSE LET shorter == SeqsUpTo(S, len - 1)
         IN shorter \cup {Append(s, x) : s \in {t \in shorter : Len(t) = len - 1}, x \in S}

(***************************************************************************)
(* Requests and the server                                                 *)
(***************************************************************************)

\* cmd::Auth(password): the request of the AUTH command
Auth(pw) == IF pw = "good" THEN "AUTHgood" ELSE "AUTHbad"

Request(id, cmd) == [req |-> id, cmd |-> cmd]

\* The frames a server may answer a command with.  "good" is by definition
\* the password the server accepts.
ReplyKinds(cmd) ==
    CASE cmd = "AUTHgood" -> {"OK", "bad"}
      [] cmd = "AUTHbad"  -> {"err", "val", "bad"}
      [] OTHER            -> {"val", "err", "bad"}

\* into_result that lets an Error frame through as a value
into_result_noError(fr) == "Ok"

\* Response::into_result
into_result(fr) == IF fr.k = "err" THEN "Err" ELSE "Ok"

\* to_output that takes any non-error frame for a successful AUTH
AuthToOutput_anyFrame(fr) == fr.k # "err"

\* AuthCommand::to_output
AuthToOutput(fr) == fr.k = "OK"

(***************************************************************************)
(* The channel of a call (ntex::channel::pool)                             *)
(***************************************************************************)

Slot(st, fr) == [st |-> st, fr |-> fr]

\* Sender::send: the value is stored if the receiver still waits, and is
\* dropped silently (let _ = ...) otherwise
send(s, id, st, fr) ==
    IF s[id].st = "wait" THEN [s EXCEPT ![id] = Slot(st, fr)] ELSE s

\* Dropping the senders of a set of calls: each waiting receiver is cancelled
RECURSIVE dropSenders(_, _)
dropSenders(s, q) ==
    IF q = <<>> THEN s
    ELSE dropSenders(send(s, Head(q), "cancel", NoFrame), Tail(q))

\* CommandResult::poll
CommandResult(id) ==
    CASE slot[id].st = "wait"   -> "pending"
      [] slot[id].st = "ok"     -> "Ok"
      [] slot[id].st = "parse"  -> "Parse"
      [] slot[id].st = "cancel" -> "PeerGone"
      [] slot[id].st = "encerr" -> "EncodeErr"
      [] OTHER                  -> slot[id].st

\* The output of the future returned by Client::exec
ExecOut(id) ==
    IF ~isOpen[id] THEN "PeerGone"
    ELSE IF slot[id].st = "ok"
         THEN IF into_result(slot[id].fr) = "Err" THEN "CommandError" ELSE "Ok"
         ELSE CommandResult(id)

\* The output of Client::flushdb and of the Service::call future
CallOut(id) == CommandResult(id)

Out(id) == IF kind[id] \in {"exec", "auth", "sexec"} THEN ExecOut(id) ELSE CallOut(id)

(***************************************************************************)
(* Shared Client                                                           *)
(***************************************************************************)

\* call that pushes the sender at the front of the queue
call_pushFront(id, cmd, enc) ==
    IF enc = "fail"
    THEN /\ slot' = [slot EXCEPT ![id] = Slot("encerr", NoFrame)]
         /\ UNCHANGED <<queue, wire, accepted>>
    ELSE /\ slot' = [slot EXCEPT ![id] = Slot("wait", NoFrame)]
         /\ queue' = <<id>> \o queue
         /\ IF io = "open"
            THEN /\ wire' = Append(wire, Request(id, cmd))
                 /\ accepted' = Append(accepted, Request(id, cmd))
            ELSE UNCHANGED <<wire, accepted>>

\* call that pushes the sender before it encodes, and leaves it on the queue
\* when the encoding fails
call_pushBeforeEncode(id, cmd, enc) ==
    /\ queue' = Append(queue, id)
    /\ IF enc = "fail"
       THEN /\ slot' = [slot EXCEPT ![id] = Slot("encerr", NoFrame)]
            /\ UNCHANGED <<wire, accepted>>
       ELSE /\ slot' = [slot EXCEPT ![id] = Slot("wait", NoFrame)]
            /\ IF io = "open"
               THEN /\ wire' = Append(wire, Request(id, cmd))
                    /\ accepted' = Append(accepted, Request(id, cmd))
               ELSE UNCHANGED <<wire, accepted>>

\* Service::call for Client: encode the request, push the sender.  IoRef::encode
\* skips the encoding and returns Ok when the io is closed.
call(id, cmd, enc) ==
    IF enc = "fail"
    THEN /\ slot' = [slot EXCEPT ![id] = Slot("encerr", NoFrame)]
         /\ UNCHANGED <<queue, wire, accepted>>
    ELSE /\ slot' = [slot EXCEPT ![id] = Slot("wait", NoFrame)]
         /\ queue' = Append(queue, id)
         /\ IF io = "open"
            THEN /\ wire' = Append(wire, Request(id, cmd))
                 /\ accepted' = Append(accepted, Request(id, cmd))
            ELSE UNCHANGED <<wire, accepted>>

\* The result of io.encode(req, &Codec) as Client::call and SimpleClient::send
\* test it.  Codec::encode as written returns Ok for every Request; the Err
\* result that the Encoder interface allows is admitted as an input so that
\* the branch handling it is exercised.  The encoder runs only while the io is
\* open.
EncResults == IF io = "open" THEN {"ok", "fail"} ELSE {"ok"}

NewCall(id, k) ==
    /\ n < MaxCalls
    /\ id = n + 1
    /\ n' = id
    /\ kind' = [kind EXCEPT ![id] = k]
    /\ isOpen' = [isOpen EXCEPT ![id] =
                      flavor = "simple" \/ k \notin {"exec", "auth"} \/ io = "open"]

Usable == cpc = "done" /\ cres = "client" /\ handles > 0

\* Client::is_connected
is_connected == io = "open"

\* exec that leaves the encoding to the first poll of its future
Exec_lazy ==
    /\ Usable /\ flavor = "shared"
    /\ NewCall(n + 1, "exec")
    /\ slot' = [slot EXCEPT ![n + 1] = Slot("wait", NoFrame)]
    /\ UNCHANGED <<connVars, pureVars, hsVars, io, wire, inbound, queue, task,
                   accepted, peerGone>>

\* Client::exec
Exec ==
    /\ Usable /\ flavor = "shared"
    /\ \E enc \in EncResults :
          /\ NewCall(n + 1, "exec")
          /\ call(n + 1, "CMD", enc)
    /\ UNCHANGED <<connVars, pureVars, hsVars, io, inbound, task, peerGone>>

\* Client::flushdb: self.call("FLUSHDB".into()).await, the response discarded
Flushdb ==
    /\ Usable /\ flavor = "shared"
    /\ \E enc \in EncResults :
          /\ NewCall(n + 1, "call")
          /\ call(n + 1, "CMD", enc)
    /\ UNCHANGED <<connVars, pureVars, hsVars, io, inbound, task, peerGone>>

\* Service::call used directly
ServiceCall ==
    /\ Usable /\ flavor = "shared"
    /\ \E enc \in EncResults :
          /\ NewCall(n + 1, "call")
          /\ call(n + 1, "CMD", enc)
    /\ UNCHANGED <<connVars, pureVars, hsVars, io, inbound, task, peerGone>>

\* Dropping the future also takes its sender off the queue
DropFuture_removeSlot ==
    /\ flavor = "shared"
    /\ \E id \in Ids :
          /\ kind[id] \in {"exec", "call"}
          /\ slot[id].st = "wait"
          /\ slot' = [slot EXCEPT ![id] = Slot("dropped", NoFrame)]
          /\ queue' = SelectSeq(queue, LAMBDA x : x # id)
    /\ UNCHANGED <<connVars, pureVars, hsVars, io, wire, inbound, task, n, kind, isOpen,
                   accepted, peerGone>>

\* The caller drops the future of a call before its response arrived
DropFuture ==
    /\ flavor = "shared"
    /\ \E id \in Ids :
          /\ kind[id] \in {"exec", "call"}
          /\ slot[id].st = "wait"
          /\ slot' = [slot EXCEPT ![id] = Slot("dropped", NoFrame)]
    /\ UNCHANGED <<connVars, pureVars, hsVars, io, wire, inbound, queue, task, n, kind,
                   isOpen, accepted, peerGone>>

\* The Ok(item) branch sending to the front sender without popping it
ReadOk_noPop ==
    /\ flavor = "shared" /\ task = "running"
    /\ inbound # <<>> /\ Head(inbound).k # "bad"
    /\ inbound' = Tail(inbound)
    /\ IF queue # <<>>
       THEN /\ slot' = send(slot, Head(queue), "ok", Head(inbound))
            /\ queue' = queue
       ELSE UNCHANGED <<slot, queue>>
    /\ UNCHANGED <<connVars, pureVars, hsVars, io, wire, task, n, kind, isOpen,
                   accepted, peerGone>>

\* The Ok(item) branch closing the connection on an unexpected frame
ReadOk_closeOnUnexpected ==
    /\ flavor = "shared" /\ task = "running"
    /\ inbound # <<>> /\ Head(inbound).k # "bad"
    /\ inbound' = Tail(inbound)
    /\ IF queue # <<>>
       THEN /\ slot' = send(slot, Head(queue), "ok", Head(inbound))
            /\ queue' = Tail(queue)
            /\ UNCHANGED io
       ELSE /\ io' = "stopped"
            /\ UNCHANGED <<slot, queue>>
    /\ UNCHANGED <<connVars, pureVars, hsVars, wire, task, n, kind, isOpen, accepted,
                   peerGone>>

\* Read task, Ok(item)
ReadOk ==
    /\ flavor = "shared" /\ task = "running"
    /\ inbound # <<>> /\ Head(inbound).k # "bad"
    /\ inbound' = Tail(inbound)
    /\ IF queue # <<>>
       THEN /\ slot' = send(slot, Head(queue), "ok", Head(inbound))
            /\ queue' = Tail(queue)
       ELSE UNCHANGED <<slot, queue>>
    /\ UNCHANGED <<connVars, pureVars, hsVars, io, wire, task, n, kind, isOpen, accepted,
                   peerGone>>

\* Read task, Err(RecvError::WriteBackpressure): requests are waiting in the
\* write buffer.  The flush fails if the io has stopped; else the loop goes on.
ReadBackpressure ==
    /\ flavor = "shared" /\ task = "running"
    /\ wire # <<>>
    /\ task' = IF io = "stopped" THEN "done" ELSE "running"
    /\ UNCHANGED <<connVars, pureVars, hsVars, io, wire, inbound, queue, n, kind, isOpen,
                   slot, accepted, peerGone>>

\* The decoder branch with the queue cleared before the error is delivered
ReadDecoder_clearFirst ==
    /\ flavor = "shared" /\ task = "running"
    /\ inbound # <<>> /\ Head(inbound).k = "bad"
    /\ slot' = dropSenders(slot, queue)
    /\ queue' = <<>>
    /\ io' = IF io = "open" THEN "stopping" ELSE io
    /\ task' = IF io = "stopped" THEN "done" ELSE "running"
    /\ UNCHANGED <<connVars, pureVars, hsVars, wire, inbound, n, kind, isOpen, accepted,
                   peerGone>>

\* The decoder branch whose shutdown takes a stopped io back to stopping
ReadDecoder_reshutdown ==
    /\ flavor = "shared" /\ task = "running"
    /\ inbound # <<>> /\ Head(inbound).k = "bad"
    /\ slot' = IF queue # <<>>
               THEN dropSenders(send(slot, Head(queue), "parse", NoFrame), Tail(queue))
               ELSE slot
    /\ queue' = <<>>
    /\ io' = "stopping"
    /\ task' = IF io = "stopped" THEN "done" ELSE "running"
    /\ UNCHANGED <<connVars, pureVars, hsVars, wire, inbound, n, kind, isOpen,
                   accepted, peerGone>>

\* Read task, Err(RecvError::Decoder(e)).  poll_shutdown is ready once the io
\* has stopped; until then the closure returns Pending and the loop is
\* entered again at the next wake-up, the rejected bytes still in the buffer.
ReadDecoder ==
    /\ flavor = "shared" /\ task = "running"
    /\ inbound # <<>> /\ Head(inbound).k = "bad"
    /\ slot' = IF queue # <<>>
               THEN dropSenders(send(slot, Head(queue), "parse", NoFrame), Tail(queue))
               ELSE slot
    /\ queue' = <<>>
    /\ io' = IF io = "open" THEN "stopping" ELSE io
    /\ task' = IF io = "stopped" THEN "done" ELSE "running"
    /\ UNCHANGED <<connVars, pureVars, hsVars, wire, inbound, n, kind, isOpen, accepted,
                   peerGone>>

\* The peer-gone branch returning without clearing the queue
ReadPeerGone_noClear ==
    /\ flavor = "shared" /\ task = "running"
    /\ io = "stopped"
    /\ task' = "done"
    /\ peerGone' = TRUE
    /\ UNCHANGED <<connVars, pureVars, hsVars, io, wire, inbound, queue, n, kind, isOpen,
                   slot, accepted>>

\* Read task, Err(RecvError::PeerGone(e))
ReadPeerGone ==
    /\ flavor = "shared" /\ task = "running"
    /\ io = "stopped"
    /\ slot' = dropSenders(slot, queue)
    /\ queue' = <<>>
    /\ task' = "done"
    /\ peerGone' = TRUE
    /\ UNCHANGED <<connVars, pureVars, hsVars, io, wire, inbound, n, kind, isOpen,
                   accepted>>

(***************************************************************************)
(* Environment: the server and the stream                                  *)
(***************************************************************************)

\* The server answers the oldest request on the wire
ServerReply ==
    /\ io = "open" /\ wire # <<>>
    /\ \E k \in ReplyKinds(Head(wire).cmd) :
          inbound' = Append(inbound, [req |-> Head(wire).req, k |-> k])
    /\ wire' = Tail(wire)
    /\ UNCHANGED <<connVars, pureVars, hsVars, io, queue, task, n, kind, isOpen, slot,
                   accepted, peerGone>>

\* The server sends a frame that answers no request; its req is negative
ServerPush ==
    /\ io = "open" /\ flavor = "shared"
    /\ pushed < MaxPush
    /\ pushed' = pushed + 1
    /\ inbound' = Append(inbound, [req |-> 0 - (pushed + 1), k |-> "ok"])
    /\ UNCHANGED <<connVars, codecVars, convVars, handles, subVars, rx, hsVars, io,
                   wire, queue, task, n, kind, isOpen, slot, accepted, peerGone>>

\* The peer closes the connection, or the stream fails
PeerClose ==
    /\ io = "open"
    /\ io' = "stopped"
    /\ UNCHANGED <<connVars, pureVars, hsVars, wire, inbound, queue, task, n, kind,
                   isOpen, slot, accepted, peerGone>>

\* The shutdown initiated by poll_shutdown completes
IoStopped ==
    /\ io = "stopping"
    /\ io' = "stopped"
    /\ UNCHANGED <<connVars, pureVars, hsVars, wire, inbound, queue, task, n, kind,
                   isOpen, slot, accepted, peerGone>>

(***************************************************************************)
(* SimpleClient                                                            *)
(***************************************************************************)

\* SimpleClient::send: encode the request
ssend(id, cmd, enc) ==
    /\ UNCHANGED <<queue>>
    /\ IF enc = "fail"
       THEN /\ slot' = [slot EXCEPT ![id] = Slot("encerr", NoFrame)]
            /\ UNCHANGED <<wire, accepted>>
       ELSE /\ slot' = [slot EXCEPT ![id] = Slot("wait", NoFrame)]
            /\ IF io = "open"
               THEN /\ wire' = Append(wire, Request(id, cmd))
                    /\ accepted' = Append(accepted, Request(id, cmd))
               ELSE UNCHANGED <<wire, accepted>>

\* SimpleClient::exec, up to its first recv
SExec ==
    /\ Usable /\ flavor = "simple"
    /\ \E enc \in EncResults :
          /\ NewCall(n + 1, "sexec")
          /\ ssend(n + 1, "CMD", enc)
    /\ UNCHANGED <<connVars, pureVars, hsVars, io, inbound, task, peerGone>>

\* SimpleClient::send called on its own: the request is written and the
\* caller goes on; no recv is made for this call
SSend ==
    /\ Usable /\ flavor = "simple"
    /\ \E enc \in EncResults :
          /\ NewCall(n + 1, "ssend")
          /\ ssend(n + 1, "CMD", enc)
    /\ UNCHANGED <<connVars, pureVars, hsVars, io, inbound, task, peerGone>>

Waiting(id) == kind[id] \in {"sexec", "auth"} /\ slot[id].st = "wait"

\* SimpleClient::poll_recv, Ok(item)
SRecvOk ==
    /\ flavor = "simple"
    /\ inbound # <<>> /\ Head(inbound).k # "bad"
    /\ \E id \in Ids :
          /\ Waiting(id)
          /\ slot' = [slot EXCEPT ![id] = Slot("ok", Head(inbound))]
    /\ inbound' = Tail(inbound)
    /\ UNCHANGED <<connVars, pureVars, hsVars, io, wire, queue, task, n, kind, isOpen,
                   accepted, peerGone>>

\* SimpleClient::poll_recv, Err(RecvError::WriteBackpressure): the error of a
\* failed flush is returned, else the poll is Pending
SRecvBackpressure ==
    /\ flavor = "simple"
    /\ wire # <<>>
    /\ \E id \in Ids :
          /\ Waiting(id)
          /\ slot' = IF io = "stopped"
                     THEN [slot EXCEPT ![id] = Slot("cancel", NoFrame)]
                     ELSE slot
    /\ UNCHANGED <<connVars, pureVars, hsVars, io, wire, inbound, queue, task, n, kind,
                   isOpen, accepted, peerGone>>

\* SimpleClient::poll_recv, Err(RecvError::WriteBackpressure) with a flush that
\* is Ready(Ok): Poll::Pending is returned although neither poll_recv nor
\* poll_flush has registered the waker.  The future is parked.
SRecvFlushed ==
    /\ flavor = "simple"
    /\ wire # <<>> /\ io # "stopped"
    /\ \E id \in Ids :
          /\ Waiting(id)
          /\ slot' = [slot EXCEPT ![id] = Slot("parked", NoFrame)]
    /\ UNCHANGED <<connVars, pureVars, hsVars, io, wire, inbound, queue, task, n, kind,
                   isOpen, accepted, peerGone>>

\* The task of a parked future is polled for a reason of its own (another
\* future of the task was woken): recv is polled again
Repoll ==
    /\ flavor = "simple"
    /\ \E id \in Ids :
          /\ slot[id].st = "parked"
          /\ slot' = [slot EXCEPT ![id] = Slot("wait", NoFrame)]
    /\ UNCHANGED <<connVars, pureVars, hsVars, io, wire, inbound, queue, task, n, kind,
                   isOpen, accepted, peerGone>>

\* SimpleClient::poll_recv, Err(RecvError::Decoder(err))
SRecvDecoder ==
    /\ flavor = "simple"
    /\ inbound # <<>> /\ Head(inbound).k = "bad"
    /\ \E id \in Ids :
          /\ Waiting(id)
          /\ slot' = [slot EXCEPT ![id] = Slot("parse", NoFrame)]
    /\ UNCHANGED <<connVars, pureVars, hsVars, io, wire, inbound, queue, task, n, kind,
                   isOpen, accepted, peerGone>>

\* SimpleClient::poll_recv, Err(RecvError::PeerGone(err))
SRecvPeerGone ==
    /\ flavor = "simple"
    /\ io = "stopped"
    /\ \E id \in Ids :
          /\ Waiting(id)
          /\ slot' = [slot EXCEPT ![id] = Slot("cancel", NoFrame)]
    /\ UNCHANGED <<connVars, pureVars, hsVars, io, wire, inbound, queue, task, n, kind,
                   isOpen, accepted, peerGone>>

(***************************************************************************)
(* SubscriptionClient                                                      *)
(***************************************************************************)

\* What recv returns: the kind of item and the frame it was made of
Item(t, fr) == [t |-> t, fr |-> fr]

\* The frames a server in subscription mode answers a request with
SubReplyKinds(cmd) ==
    IF cmd = "SUBSCRIBE" THEN {"sub", "err", "val", "bad"}
    ELSE {"unsub", "err", "val", "bad"}

\* SubscribeOutputCommand::to_output, which is PubSubItem::try_from
PubSubToOutput(fr) ==
    CASE fr.k = "sub"   -> Item("Subscribed", fr)
      [] fr.k = "unsub" -> Item("UnSubscribed", fr)
      [] fr.k = "msg"   -> Item("Message", fr)
      [] OTHER          -> Item("Output", fr)

\* The Ok(item) branch of poll_recv with U a pubsub command
RecvItem(fr) ==
    IF into_result(fr) = "Err" THEN Item("Error", fr) ELSE PubSubToOutput(fr)

\* SimpleClient::subscribe: the client is consumed.  If the encoding fails
\* the error is returned and the client, with its io, is dropped.
Subscribe ==
    /\ Usable /\ flavor = "simple"
    /\ \E enc \in EncResults :
          /\ NewCall(n + 1, "ssend")
          /\ ssend(n + 1, "SUBSCRIBE", enc)
          /\ flavor' = IF enc = "fail" THEN "dropped" ELSE "subscription"
          /\ io' = IF enc = "fail" THEN "stopped" ELSE io
    /\ UNCHANGED <<passwords, pureVars, hsVars, inbound, task, peerGone>>

\* SubscriptionClient::send
SubSend ==
    /\ flavor = "subscription"
    /\ \E cmd \in {"SUBSCRIBE", "UNSUBSCRIBE"}, enc \in EncResults :
          /\ NewCall(n + 1, "ssend")
          /\ ssend(n + 1, cmd, enc)
    /\ UNCHANGED <<connVars, pureVars, hsVars, io, inbound, task, peerGone>>

\* One value returned by recv
Deliver(item) ==
    /\ Len(items) < MaxItems
    /\ items' = Append(items, item)

\* The stream skipping the first of two buffered frames
SubRecvOk_skip ==
    /\ flavor = "subscription"
    /\ inbound # <<>> /\ Head(inbound).k # "bad"
    /\ IF Len(inbound) > 1 /\ inbound[2].k # "bad"
       THEN /\ Deliver(RecvItem(inbound[2]))
            /\ inbound' = Tail(Tail(inbound))
       ELSE /\ Deliver(RecvItem(Head(inbound)))
            /\ inbound' = Tail(inbound)
    /\ UNCHANGED <<clientHs, io, wire, queue, task, n, kind, isOpen, slot, accepted,
                   peerGone, codecVars, convVars, handles, pushed, sent, rx>>

\* The stream leaving in the buffer a frame it reports as an Err item
SubRecvOk_stuckOnError ==
    /\ flavor = "subscription"
    /\ inbound # <<>> /\ Head(inbound).k # "bad"
    /\ Deliver(RecvItem(Head(inbound)))
    /\ inbound' = IF RecvItem(Head(inbound)).t \in {"Error", "Output"}
                  THEN inbound ELSE Tail(inbound)
    /\ UNCHANGED <<clientHs, io, wire, queue, task, n, kind, isOpen, slot, accepted,
                   peerGone, codecVars, convVars, handles, pushed, sent, rx>>

\* SubscriptionClient::recv / poll_next, Ok(item)
SubRecvOk ==
    /\ flavor = "subscription"
    /\ inbound # <<>> /\ Head(inbound).k # "bad"
    /\ Deliver(RecvItem(Head(inbound)))
    /\ inbound' = Tail(inbound)
    /\ UNCHANGED <<clientHs, io, wire, queue, task, n, kind, isOpen, slot, accepted,
                   peerGone, codecVars, convVars, handles, pushed, sent, rx>>

\* SubscriptionClient::recv, Err(RecvError::WriteBackpressure): the error of
\* a failed flush is returned as an item, else the poll is Pending
SubRecvBackpressure ==
    /\ flavor = "subscription"
    /\ wire # <<>>
    /\ IF io = "stopped"
       THEN Deliver(Item("PeerGone", NoFrame))
       ELSE UNCHANGED items
    /\ UNCHANGED <<clientSt, codecVars, convVars, handles, pushed, sent, rx>>

\* SubscriptionClient::recv, Err(RecvError::Decoder(err))
SubRecvDecoder ==
    /\ flavor = "subscription"
    /\ inbound # <<>> /\ Head(inbound).k = "bad"
    /\ Deliver(Item("Protocol", NoFrame))
    /\ UNCHANGED <<clientSt, codecVars, convVars, handles, pushed, sent, rx>>

\* SubscriptionClient::recv, Err(RecvError::PeerGone(err)): an item, not None
SubRecvPeerGone ==
    /\ flavor = "subscription"
    /\ io = "stopped"
    /\ Deliver(Item("PeerGone", NoFrame))
    /\ UNCHANGED <<clientSt, codecVars, convVars, handles, pushed, sent, rx>>

\* SubscriptionClient::into_client: the SimpleClient is handed back as it is,
\* with whatever its io has buffered
IntoClient ==
    /\ flavor = "subscription"
    /\ flavor' = "simple"
    /\ UNCHANGED <<passwords, hsVars, io, wire, inbound, queue, task, n, kind, isOpen,
                   slot, accepted, peerGone, pureVars>>

\* The client that into_client returned: the subscribe was made on it
Reclaimed == flavor = "simple" /\ \E id \in Ids : kind[id] = "ssend"

\* subscribe as the first use of a fresh connection
FirstSubscribe == n = 0 /\ Subscribe

\* exec on the client that into_client returned
ReclaimedExec == Reclaimed /\ SExec

\* The server answers the oldest request of a connection that is no longer
\* used as a subscription
SimpleServerReply == Reclaimed /\ ServerReply

\* The server answers the oldest subscribe or unsubscribe request
SubServerReply ==
    /\ flavor = "subscription"
    /\ io = "open" /\ wire # <<>>
    /\ \E k \in SubReplyKinds(Head(wire).cmd) :
          /\ inbound' = Append(inbound, [req |-> Head(wire).req, k |-> k])
          /\ sent' = Append(sent, [req |-> Head(wire).req, k |-> k])
    /\ wire' = Tail(wire)
    /\ UNCHANGED <<clientHs, io, queue, task, n, kind, isOpen, slot, accepted,
                   peerGone, codecVars, convVars, handles, pushed, items, rx>>

\* The server sends a message published on a subscribed channel
ServerMessage ==
    /\ flavor = "subscription"
    /\ io = "open"
    /\ pushed < MaxMsgs
    /\ pushed' = pushed + 1
    /\ inbound' = Append(inbound, [req |-> 0 - (pushed + 1), k |-> "msg"])
    /\ sent' = Append(sent, [req |-> 0 - (pushed + 1), k |-> "msg"])
    /\ UNCHANGED <<clientHs, io, wire, queue, task, n, kind, isOpen, slot, accepted,
                   peerGone, codecVars, convVars, handles, items, rx>>

(***************************************************************************)
(* Transport                                                               *)
(***************************************************************************)

\* What the steps of Transport leave alone
transportRest == <<clientHs, peerGone, codecVars, convVars, pushed, subVars>>

\* Transport::failed: every sender of the queue is sent a clone of the error
RECURSIVE failed(_, _, _)
failed(s, q, err) ==
    IF q = <<>> THEN s
    ELSE failed(send(s, Head(q), err, NoFrame), Tail(q), err)

\* A caller puts (req, tx) on the channel of the Transport
TSubmit ==
    /\ flavor = "transport" /\ task = "running" /\ handles > 0
    /\ NewCall(n + 1, "tcall")
    /\ slot' = [slot EXCEPT ![n + 1] = Slot("wait", NoFrame)]
    /\ rx' = Append(rx, n + 1)
    /\ UNCHANGED <<transportRest, handles, io, wire, inbound, queue, task, accepted>>

\* A sender of the channel is dropped
TDropSender ==
    /\ flavor = "transport" /\ handles > 0
    /\ handles' = handles - 1
    /\ UNCHANGED <<transportRest, clientSt, rx>>

\* Write loop, Poll::Ready(Some((req, tx))): the sender is pushed, then the
\* request is written.  If the write fails, failed(e) and the future is done.
TWrite ==
    /\ flavor = "transport" /\ task = "running"
    /\ rx # <<>>
    /\ rx' = Tail(rx)
    /\ \E enc \in {"ok", "fail"} :
          IF enc = "ok"
          THEN /\ queue' = Append(queue, Head(rx))
               /\ wire' = Append(wire, Request(Head(rx), "CMD"))
               /\ accepted' = Append(accepted, Request(Head(rx), "CMD"))
               /\ UNCHANGED <<slot, task>>
          ELSE /\ slot' = failed(slot, Append(queue, Head(rx)), "encerr")
               /\ queue' = <<>>
               /\ task' = "done"
               /\ UNCHANGED <<wire, accepted>>
    /\ UNCHANGED <<transportRest, handles, io, inbound, n, kind, isOpen>>

\* Write loop, Poll::Ready(None): every sender of the channel is dropped and
\* the channel is empty; the future is done
TRxClosed ==
    /\ flavor = "transport" /\ task = "running"
    /\ rx = <<>> /\ handles = 0
    /\ task' = "done"
    /\ UNCHANGED <<transportRest, handles, rx, io, wire, inbound, queue, n, kind,
                   isOpen, slot, accepted>>

\* flush, Poll::Ready(Err(err)): failed(err) and the future is done
TFlushFailed ==
    /\ flavor = "transport" /\ task = "running"
    /\ wire # <<>> /\ io = "stopped"
    /\ slot' = failed(slot, queue, "ioerr")
    /\ queue' = <<>>
    /\ task' = "done"
    /\ UNCHANGED <<transportRest, handles, rx, io, wire, inbound, n, kind, isOpen,
                   accepted>>

\* Read loop, Poll::Ready(Some(Ok(el)))
TReadOk ==
    /\ flavor = "transport" /\ task = "running"
    /\ inbound # <<>> /\ Head(inbound).k # "bad"
    /\ inbound' = Tail(inbound)
    /\ IF queue # <<>>
       THEN /\ slot' = send(slot, Head(queue), "ok", Head(inbound))
            /\ queue' = Tail(queue)
       ELSE UNCHANGED <<slot, queue>>
    /\ UNCHANGED <<transportRest, handles, rx, io, wire, task, n, kind, isOpen,
                   accepted>>

\* Read loop, Poll::Ready(Some(Err(err))): failed(err) and the future is done
TReadErr ==
    /\ flavor = "transport" /\ task = "running"
    /\ inbound # <<>> /\ Head(inbound).k = "bad"
    /\ slot' = failed(slot, queue, "parse")
    /\ queue' = <<>>
    /\ task' = "done"
    /\ UNCHANGED <<transportRest, handles, rx, io, wire, inbound, n, kind, isOpen,
                   accepted>>

\* Read loop, Poll::Ready(None): the peer closed; the future is done
TReadNone ==
    /\ flavor = "transport" /\ task = "running"
    /\ inbound = <<>> /\ io = "stopped"
    /\ task' = "done"
    /\ UNCHANGED <<transportRest, handles, rx, io, wire, inbound, queue, n, kind,
                   isOpen, slot, accepted>>

(***************************************************************************)
(* RedisConnector::connect and RedisConnector::connect_simple              *)
(***************************************************************************)

\* client.exec(cmd::Auth(password)) of the handshake
authExec(id, pw) ==
    /\ NewCall(id, "auth")
    /\ authId' = id
    /\ IF flavor = "shared"
       THEN call(id, Auth(pw), "ok")
       ELSE ssend(id, Auth(pw), "ok")

\* let io = fut.await?: the connector service failed, the error is converted
\* by From<connect::ConnectError>.  No stream exists and no task was spawned.
ConnectFailed ==
    /\ cpc = "start"
    /\ cpc' = "done" /\ cres' = "Connect"
    /\ io' = "stopped" /\ task' = "done"
    /\ UNCHANGED <<connVars, pureVars, pwi, authId, wire, inbound, queue, n, kind, isOpen,
                   slot, accepted, peerGone>>

\* connect that sends an AUTH command whether or not a password is configured
ConnectBegin_authAlways ==
    /\ cpc = "start"
    /\ cpc' = "auth" /\ pwi' = 1 /\ UNCHANGED cres
    /\ authExec(n + 1, IF passwords = <<>> THEN "bad" ELSE passwords[1])
    /\ UNCHANGED <<connVars, pureVars, io, inbound, task, peerGone>>

\* The stream is established and the client is constructed: the client is
\* returned at once with no password, else the AUTH loop starts
ConnectBegin ==
    /\ cpc = "start"
    /\ IF passwords = <<>>
       THEN /\ cpc' = "done" /\ cres' = "client"
            /\ UNCHANGED <<pwi, authId, n, kind, isOpen, slot, queue, wire,
                           accepted>>
       ELSE /\ cpc' = "auth" /\ pwi' = 1 /\ UNCHANGED cres
            /\ authExec(n + 1, passwords[1])
    /\ UNCHANGED <<connVars, pureVars, io, inbound, task, peerGone>>

\* The AUTH in flight has resolved: `?`, the test of its output, the next
\* iteration of the loop
AuthStep ==
    /\ cpc = "auth" /\ Out(authId) # "pending"
    /\ IF Out(authId) # "Ok"
       THEN /\ cpc' = "done" /\ cres' = "Command"
            /\ UNCHANGED <<pwi, authId, n, kind, isOpen, slot, queue, wire,
                           accepted>>
       ELSE IF AuthToOutput(slot[authId].fr)
       THEN /\ cpc' = "done" /\ cres' = "client"
            /\ UNCHANGED <<pwi, authId, n, kind, isOpen, slot, queue, wire,
                           accepted>>
       ELSE IF pwi < Len(passwords)
       THEN /\ pwi' = pwi + 1 /\ UNCHANGED <<cpc, cres>>
            /\ authExec(n + 1, passwords[pwi + 1])
       ELSE /\ cpc' = "done" /\ cres' = "Unauthorized"
            /\ UNCHANGED <<pwi, authId, n, kind, isOpen, slot, queue, wire,
                           accepted>>
    /\ UNCHANGED <<connVars, pureVars, io, inbound, task, peerGone>>

(***************************************************************************)
(* The codec (src/src/codec.rs).  A byte is one of the symbols below; a     *)
(* buffer is a sequence of bytes.  Positions are counted from 0 as in the   *)
(* source: byte idx of a buffer b is b[idx + 1].                            *)
(***************************************************************************)

CR == "CR"
LF == "LF"

Digits == <<"0", "1", "2", "3", "4", "5", "6", "7", "8", "9">>

DigitVal(c) == CHOOSE d \in 0..9 : Digits[d + 1] = c

IsDigit(c) == \E d \in 1..10 : Digits[d] = c

\* itoa::write for a non-negative number
RECURSIVE utoa(_)
utoa(i) == IF i < 10 THEN <<Digits[i + 1]>> ELSE Append(utoa(i \div 10), Digits[(i % 10) + 1])

\* itoa::write
itoa(i) == IF i < 0 THEN <<"-">> \o utoa(-i) ELSE utoa(i)

\* btoi::btou: the digits of a non-empty slice, most significant first
RECURSIVE btou(_, _)
btou(s, acc) == IF s = <<>> THEN acc ELSE btou(Tail(s), 10 * acc + DigitVal(Head(s)))

\* btoi::btoi: an optional sign and at least one digit, nothing else
btoi(s) ==
    LET signed == s # <<>> /\ Head(s) \in {"-", "+"}
        digits == IF signed THEN Tail(s) ELSE s
    IN IF digits = <<>> \/ \E i \in 1..Len(digits) : ~IsDigit(digits[i])
       THEN [ok |-> FALSE, int |-> 0]
       ELSE [ok |-> TRUE,
             int |-> IF signed /\ Head(s) = "-" THEN -btou(digits, 0) ELSE btou(digits, 0)]

\* Requests (enum Request) and responses (enum Response)
ReqArray(a) == [t |-> "Array", a |-> a]
ReqBulkString(b) == [t |-> "BulkString", b |-> b]
ReqBulkStatic(b) == [t |-> "BulkStatic", b |-> b]
ReqBulkInteger(i) == [t |-> "BulkInteger", i |-> i]
ReqString(s) == [t |-> "String", s |-> s]
ReqInteger(i) == [t |-> "Integer", i |-> i]

Nil == [t |-> "Nil"]
RespArray(a) == [t |-> "Array", a |-> a]
RespBytes(b) == [t |-> "Bytes", b |-> b]
RespString(s) == [t |-> "String", s |-> s]
RespError(s) == [t |-> "Error", s |-> s]
RespInteger(i) == [t |-> "Integer", i |-> i]

NoItem == [t |-> "none"]

\* BytesMut::advance and the two halves of BytesMut::split_to
advance(b, cnt) == SubSeq(b, cnt + 1, Len(b))
split_to(b, at) == SubSeq(b, 1, at)

write_rn(b) == b \o <<CR, LF>>

\* write_header that leaves out the CR LF after the number
write_header_noRn(symb, len, b) == b \o <<symb>> \o itoa(len)

write_header(symb, len, b) == write_rn(b \o <<symb>> \o itoa(len))

write_string(symb, string, b) == write_rn(b \o <<symb>> \o string)

\* Codec::encode, appending to the buffer b
RECURSIVE encode(_, _)
encode(msg, b) ==
    CASE msg.t = "Array" ->
            LET RECURSIVE each(_, _)
                each(ary, bb) ==
                    IF ary = <<>> THEN bb ELSE each(Tail(ary), encode(Head(ary), bb))
            IN each(msg.a, write_header("*", Len(msg.a), b))
      [] msg.t \in {"BulkString", "BulkStatic"} ->
            write_rn(write_header("$", Len(msg.b), b) \o msg.b)
      [] msg.t = "BulkInteger" ->
            write_rn(write_header("$", Len(itoa(msg.i)), b) \o itoa(msg.i))
      [] msg.t = "String" -> write_string("+", msg.s, b)
      [] msg.t = "Integer" -> write_header(":", msg.i, b)

\* A DecodeResult together with the buffer as the call leaves it
DNone(b) == [buf |-> b, r |-> "None", pos |-> 0, item |-> NoItem]
DErr(b) == [buf |-> b, r |-> "Err", pos |-> 0, item |-> NoItem]
DSome(b, pos, item) == [buf |-> b, r |-> "Some", pos |-> pos, item |-> item]

\* buf[idx..].windows(2).position(|w| w == b"\r\n"), -1 for None
position(b, idx) ==
    LET at == {p \in 0..(Len(b) - idx - 2) : b[idx + p + 1] = CR /\ b[idx + p + 2] = LF}
    IN IF at = {} THEN -1 ELSE CHOOSE p \in at : \A q \in at : p <= q

decode_length(b, idx) ==
    LET p == position(b, idx)
        int == btoi(SubSeq(b, idx + 1, idx + p))
    IN IF p = -1 THEN [r |-> "None", pos |-> 0, int |-> 0]
       ELSE IF int.ok THEN [r |-> "Some", pos |-> idx + p + 2, int |-> int.int]
       ELSE [r |-> "Err", pos |-> 0, int |-> 0]

\* decode_bytes that takes every negative length for a nil
decode_bytes_anyNegative(b, idx) ==
    LET len == decode_length(b, idx)
        rest == advance(b, len.pos)
    IN CASE len.r = "None" -> DNone(b)
         [] len.r = "Err" -> DErr(b)
         [] len.int < 0 -> DSome(b, len.pos, Nil)
         [] OTHER ->
               IF Len(b) - len.pos < len.int + 2 THEN DNone(b)
               ELSE DSome(advance(rest, len.int), 2, RespBytes(split_to(rest, len.int)))

decode_bytes(b, idx) ==
    LET len == decode_length(b, idx)
        rest == advance(b, len.pos)
    IN CASE len.r = "None" -> DNone(b)
         [] len.r = "Err" -> DErr(b)
         [] len.int = -1 -> DSome(b, len.pos, Nil)
         [] len.int >= 0 ->
               IF Len(b) - len.pos < len.int + 2 THEN DNone(b)
               ELSE DSome(advance(rest, len.int), 2, RespBytes(split_to(rest, len.int)))
         [] OTHER -> DErr(b)

decode_integer(b, idx) ==
    LET len == decode_length(b, idx)
    IN CASE len.r = "None" -> DNone(b)
         [] len.r = "Err" -> DErr(b)
         [] OTHER -> DSome(b, len.pos, RespInteger(len.int))

\* scan_string; every byte of the alphabet is ASCII, so the text is valid
scan_string(b, idx) ==
    LET p == position(b, idx)
        rest == advance(b, idx)
    IN IF p = -1 THEN [buf |-> b, r |-> "None", pos |-> 0, s |-> <<>>]
       ELSE [buf |-> advance(rest, p), r |-> "Some", pos |-> 2, s |-> split_to(rest, p)]

decode_string(b, idx) ==
    LET s == scan_string(b, idx)
    IN IF s.r = "Some" THEN DSome(s.buf, s.pos, RespString(s.s)) ELSE DNone(b)

decode_error(b, idx) ==
    LET s == scan_string(b, idx)
    IN IF s.r = "Some" THEN DSome(s.buf, s.pos, RespError(s.s)) ELSE DNone(b)

RECURSIVE decode(_, _)

\* decode_array; the loop over the children is values(...)
decode_array(b, idx) ==
    LET len == decode_length(b, idx)
        RECURSIVE values(_, _, _, _)
        values(bb, pos, vs, left) ==
            IF left = 0 THEN DSome(bb, pos, RespArray(vs))
            ELSE LET d == decode(bb, pos)
                 IN CASE d.r = "None" -> DNone(d.buf)
                      [] d.r = "Err" -> DErr(d.buf)
                      [] OTHER -> values(d.buf, d.pos, Append(vs, d.item), left - 1)
    IN CASE len.r = "None" -> DNone(b)
         [] len.r = "Err" -> DErr(b)
         [] len.int = -1 -> DSome(b, len.pos, Nil)
         [] len.int >= 0 -> values(b, len.pos, <<>>, len.int)
         [] OTHER -> DErr(b)

\* fn decode(buf, idx)
decode(b, idx) ==
    IF Len(b) > idx
    THEN CASE b[idx + 1] = "$" -> decode_bytes(b, idx + 1)
           [] b[idx + 1] = "*" -> decode_array(b, idx + 1)
           [] b[idx + 1] = ":" -> decode_integer(b, idx + 1)
           [] b[idx + 1] = "+" -> decode_string(b, idx + 1)
           [] b[idx + 1] = "-" -> decode_error(b, idx + 1)
           [] OTHER -> DErr(b)
    ELSE DNone(b)

\* A decode that takes the whole buffer for the frame it returns
Codec_decode_takeAll(b) ==
    LET d == decode(b, 0)
    IN IF d.r = "Some"
       THEN [buf |-> <<>>, r |-> "Some", item |-> d.item]
       ELSE [buf |-> d.buf, r |-> d.r, item |-> NoItem]

\* Codec::decode
Codec_decode(b) ==
    LET d == decode(b, 0)
    IN IF d.r = "Some"
       THEN [buf |-> advance(d.buf, d.pos), r |-> "Some", item |-> d.item]
       ELSE [buf |-> d.buf, r |-> d.r, item |-> NoItem]

(***************************************************************************)
(* The codec at work: a request is encoded, or the peer sends bytes; the    *)
(* bytes arrive in the read buffer one at a time and Codec::decode is       *)
(* called on the buffer at any moment.                                      *)
(***************************************************************************)

MaxArr == 2     \* children of an array

\* The requests encoded: the children of arrays, ...
Leaves ==
    {ReqBulkString(<<"a">>), ReqBulkString(<<CR, LF>>), ReqInteger(1), ReqString(<<"a">>)}

\* ... the arrays of leaves, and the arrays with another array inside
FlatArrays == {ReqArray(a) : a \in SeqsUpTo(Leaves, MaxArr)}

NestedArrays ==
    {ReqArray(<<f>>) : f \in FlatArrays}
        \cup {ReqArray(<<f, l>>) : f \in FlatArrays, l \in Leaves}
        \cup {ReqArray(<<l, f>>) : f \in FlatArrays, l \in Leaves}

Requests ==
    Leaves \cup FlatArrays \cup NestedArrays
        \cup {ReqBulkString(<<>>), ReqBulkString(<<"a", CR, LF, "b">>),
              ReqBulkStatic(<<"a", "b">>), ReqBulkInteger(-12), ReqString(<<>>),
              ReqInteger(-2), ReqInteger(0), ReqInteger(120)}

Line(s) == s \o <<CR, LF>>

\* The bytes a peer sends that no request encodes to, each with the frame
\* the protocol gives it (NoItem if it is not a frame of the protocol)
PeerInputs ==
    {[bytes |-> Line(<<"$", "-", "1">>), frame |-> Nil],
     [bytes |-> Line(<<"*", "-", "1">>), frame |-> Nil],
     [bytes |-> Line(<<"-", "a", "b">>), frame |-> RespError(<<"a", "b">>)],
     [bytes |-> Line(<<"*", "2">>) \o Line(<<"$", "-", "1">>) \o Line(<<"-", "a">>),
      frame |-> RespArray(<<Nil, RespError(<<"a">>)>>)],
     [bytes |-> Line(<<"*", "2">>) \o Line(<<"*", "-", "1">>) \o Line(<<":", "1">>),
      frame |-> RespArray(<<Nil, RespInteger(1)>>)]}
        \cup {[bytes |-> Line(<<h, "-", d>>) \o more, frame |-> NoItem] :
                 h \in {"$", "*"}, d \in {"2", "3"}, more \in {<<>>, Line(<<":", "1">>)}}
        \cup {[bytes |-> Line(<<h>> \o s), frame |-> NoItem] :
                 h \in {"$", "*", ":"}, s \in {<<>>, <<"-">>, <<"a">>, <<"1", "a">>}}
        \cup {[bytes |-> Line(<<"$", "1">>) \o <<"a">> \o t \o more, frame |-> NoItem] :
                 t \in {<<"x", "y">>, <<CR, "x">>, <<"x", LF>>, <<LF, CR>>},
                 more \in {<<>>, Line(<<":", "1">>)}}
        \cup {[bytes |-> Line(<<"*", "1">>) \o Line(<<"$", "1">>) \o <<"a", "x", "y">>,
               frame |-> NoItem],
              [bytes |-> <<"a">>, frame |-> NoItem]}
        \cup {[bytes |-> Line(<<h, "a", c, "b">>), frame |-> NoItem] :
                 h \in {"+", "-"}, c \in {CR, LF}}
        \cup {[bytes |-> Line(<<"*", "1">>) \o Line(<<"+", LF, CR>>), frame |-> NoItem]}

CodecInputs ==
    {[k |-> "req", req |-> r] : r \in Requests}
        \cup {[k |-> "raw", bytes |-> p.bytes, frame |-> p.frame] : p \in PeerInputs}

\* Frames the peer sends one after the other without a pause: every type of
\* frame first, arrays that end with a bulk string, with a simple string and
\* with an array among them
FirstFrames ==
    {[k |-> "req", req |-> r] :
        r \in Leaves \cup
              {ReqBulkString(<<>>), ReqArray(<<>>),
               ReqArray([i \in 1..MaxArr |-> ReqBulkString(<<"a">>)]),
               ReqArray(<<ReqInteger(1), ReqString(<<"a">>)>>),
               ReqArray(<<ReqBulkString(<<"a">>), ReqInteger(1)>>),
               ReqArray(<<ReqArray(<<ReqBulkString(<<"a">>)>>), ReqBulkString(<<CR, LF>>)>>),
               ReqArray(<<ReqString(<<"a">>), ReqArray(<<ReqString(<<"a">>)>>)>>)}}
        \cup {[k |-> "raw", bytes |-> p.bytes, frame |-> p.frame] :
                 p \in {q \in PeerInputs : q.frame # NoItem}}

NextFrames ==
    {[k |-> "req", req |-> r] :
        r \in {ReqInteger(1), ReqBulkString(<<"a">>), ReqString(<<"a">>),
               ReqArray(<<ReqBulkString(<<"a">>)>>)}}
        \cup {[k |-> "raw", bytes |-> Line(<<"$", "-", "1">>), frame |-> Nil]}

FrameInputs ==
    {[k |-> "seq", parts |-> <<f, g>>] : f \in FirstFrames, g \in NextFrames}
        \cup {[k |-> "seq", parts |-> <<f, g, [k |-> "req", req |-> ReqInteger(1)]>>] :
                 f \in FirstFrames, g \in NextFrames}

\* The bytes of one frame of the peer
BytesOf(x) == IF x.k = "req" THEN encode(x.req, <<>>) ELSE x.bytes

\* The bytes of the frames from the k-th on
RECURSIVE Rest(_, _)
Rest(parts, k) ==
    IF k > Len(parts) THEN <<>> ELSE BytesOf(parts[k]) \o Rest(parts, k + 1)

\* One read from the socket puts all the frames into the read buffer
PeerSendFrames ==
    /\ cin.k = "seq" /\ orig = <<>>
    /\ orig' = Rest(cin.parts, 1)
    /\ buf' = orig'
    /\ UNCHANGED <<clientVars, convVars, cin, stream, dres>>

\* The request is encoded into the write buffer and travels to the peer,
\* which echoes it
CodecEncode ==
    /\ cin.k = "req" /\ orig = <<>>
    /\ orig' = encode(cin.req, <<>>)
    /\ stream' = orig'
    /\ UNCHANGED <<clientVars, convVars, cin, buf, dres>>

\* The peer sends its bytes
PeerSend ==
    /\ cin.k = "raw" /\ orig = <<>>
    /\ orig' = cin.bytes
    /\ stream' = orig'
    /\ UNCHANGED <<clientVars, convVars, cin, buf, dres>>

\* One more byte is read into the buffer
Arrive ==
    /\ stream # <<>>
    /\ buf' = Append(buf, Head(stream))
    /\ stream' = Tail(stream)
    /\ UNCHANGED <<clientVars, convVars, cin, orig, dres>>

\* Codec::decode is called on the read buffer; the io is shut down after an
\* error
Decode ==
    /\ orig # <<>> /\ dres.r # "Err"
    /\ LET d == Codec_decode(buf)
       IN /\ buf' = d.buf
          /\ dres' = [r |-> d.r, item |-> d.item]
    /\ UNCHANGED <<clientVars, convVars, cin, orig, stream>>

(***************************************************************************)
(* Conversions of a Response (src/src/codec.rs, src/src/cmd/pubsub.rs).     *)
(* Here the i64 of Response::Integer is written in two's complement as      *)
(* four 16-bit limbs <<a, b, c, d>>, the first one signed: the value is     *)
(* a * 2^48 + b * 2^32 + c * 2^16 + d.  The bytes of Response::Bytes are a  *)
(* string.                                                                  *)
(***************************************************************************)

B16 == 65536

\* x < y for two i64
Lt(x, y) ==
    \E i \in 1..4 : x[i] < y[i] /\ \A j \in 1..(i - 1) : x[j] = y[j]

Zero == <<0, 0, 0, 0>>

IntTypes == {"isize", "usize", "i32", "u32", "u64"}

\* The type an integer type stands for in a build of the given pointer width
Width(ty, bits) ==
    CASE ty = "isize" -> IF bits = 64 THEN "i64" ELSE "i32"
      [] ty = "usize" -> IF bits = 64 THEN "u64" ELSE "u32"
      [] OTHER -> ty

\* $int_ty::min_value() as i64
min_value(ty) ==
    CASE ty = "i64" -> <<-32768, 0, 0, 0>>
      [] ty = "i32" -> <<-1, 65535, 32768, 0>>
      [] OTHER -> Zero

\* $int_ty::max_value() as i64
max_value(ty) ==
    CASE ty = "i64" -> <<32767, 65535, 65535, 65535>>
      [] ty = "i32" -> <<0, 0, 32767, 65535>>
      [] ty = "u32" -> <<0, 0, 65535, 65535>>
      [] ty = "u64" -> <<-1, 65535, 65535, 65535>>

\* x as $int_ty: the low bits of x read in the target type
as(x, ty) ==
    CASE ty = "i64" -> x
      [] ty = "i32" -> IF x[3] >= 32768 THEN <<-1, 65535, x[3], x[4]>>
                       ELSE <<0, 0, x[3], x[4]>>
      [] ty = "u32" -> <<0, 0, x[3], x[4]>>
      [] ty = "u64" -> <<x[1] % B16, x[2], x[3], x[4]>>

Ok(v) == [r |-> "Ok", v |-> v]
Err(msg) == [r |-> "Err", msg |-> msg]

\* TryFrom<Response> for i64
i64_try_from(v) ==
    IF v.t = "Integer" THEN Ok(v.i) ELSE Err("Cannot be converted into an i64")

\* The conversion without the test of the upper bound
int_try_from_noUpper(v, ty) ==
    LET x == i64_try_from(v)
    IN IF x.r = "Err" THEN x
       ELSE IF Lt(x.v, min_value(ty))
       THEN Err("i64 value cannot be represented")
       ELSE Ok(as(x.v, ty))

\* impl_tryfrom_integers: TryFrom<Response> for $int_ty
int_try_from(v, ty) ==
    LET x == i64_try_from(v)
    IN IF x.r = "Err" THEN x
       ELSE IF \/ Lt(x.v, min_value(ty))
               \/ Lt(Zero, max_value(ty)) /\ Lt(max_value(ty), x.v)
       THEN Err("i64 value cannot be represented")
       ELSE Ok(as(x.v, ty))

\* TryFrom<Response> for Bytes
Bytes_try_from(v) ==
    IF v.t = "Bytes" THEN Ok(v.b) ELSE Err("Not a bytes object")

\* TryFrom<Response> for MessagePayload: Either::Left or Either::Right
MessagePayload_try_from(v) ==
    CASE v.t = "Bytes" -> Ok([left |-> TRUE, b |-> v.b])
      [] v.t = "Integer" -> Ok([left |-> FALSE, i |-> v.i])
      [] OTHER -> Err("Not a bytes object or integer")

TYPE_SUBSCRIBE == {"subscribe", "ssubscribe", "psubscribe"}
TYPE_UNSUBSCRIBE == {"unsubscribe", "sunsubscribe", "punsubscribe"}
TYPE_MESSAGE == {"message", "smessage", "pmessage"}

None == [some |-> FALSE]
Some(b) == [some |-> TRUE, b |-> b]

Subscribed(channel) == [t |-> "Subscribed", channel |-> channel]
UnSubscribed(channel) == [t |-> "UnSubscribed", channel |-> channel]
Message(pattern, channel, payload) ==
    [t |-> "Message", pattern |-> pattern, channel |-> channel, payload |-> payload]

\* The conversion with the pattern and the channel of a 4-element array taken
\* from each other's place
SubscribeItem_try_from_swapped(v) ==
    LET a == v.a
        len == Len(a)
        mtype == Bytes_try_from(a[1])
        pat == IF len = 4 THEN Bytes_try_from(a[3]) ELSE Ok("")
        channel == Bytes_try_from(a[2])
        payload == MessagePayload_try_from(a[len])
    IN CASE v.t # "Array" -> Err("Unexpected value")
         [] len \notin {3, 4} -> Err("Array needs to be 3 or 4 elements")
         [] mtype.r = "Err" -> mtype
         [] pat.r = "Err" -> pat
         [] channel.r = "Err" -> channel
         [] payload.r = "Err" -> payload
         [] mtype.v \in TYPE_SUBSCRIBE -> Ok(Subscribed(channel.v))
         [] mtype.v \in TYPE_UNSUBSCRIBE -> Ok(UnSubscribed(channel.v))
         [] mtype.v \in TYPE_MESSAGE ->
               IF payload.v.left
               THEN Ok(Message(IF len = 4 THEN Some(pat.v) ELSE None, channel.v,
                               payload.v.b))
               ELSE Err("Subscription message payload is not bytes")
         [] OTHER -> Err("Subscription message type unknown")

\* The conversion that takes an unknown type word for a message
SubscribeItem_try_from_anyWord(v) ==
    LET a == v.a
        len == Len(a)
        mtype == Bytes_try_from(a[1])
        pat == IF len = 4 THEN Bytes_try_from(a[2]) ELSE Ok("")
        channel == Bytes_try_from(a[len - 1])
        payload == MessagePayload_try_from(a[len])
    IN CASE v.t # "Array" -> Err("Unexpected value")
         [] len \notin {3, 4} -> Err("Array needs to be 3 or 4 elements")
         [] mtype.r = "Err" -> mtype
         [] pat.r = "Err" -> pat
         [] channel.r = "Err" -> channel
         [] payload.r = "Err" -> payload
         [] mtype.v \in TYPE_SUBSCRIBE -> Ok(Subscribed(channel.v))
         [] mtype.v \in TYPE_UNSUBSCRIBE -> Ok(UnSubscribed(channel.v))
         [] OTHER ->
               IF payload.v.left
               THEN Ok(Message(IF len = 4 THEN Some(pat.v) ELSE None, channel.v,
                               payload.v.b))
               ELSE Err("Subscription message payload is not bytes")

\* TryFrom<Response> for SubscribeItem.  The elements of the array are
\* converted in order, the first error is returned.
SubscribeItem_try_from(v) ==
    LET a == v.a
        len == Len(a)
        mtype == Bytes_try_from(a[1])
        pat == IF len = 4 THEN Bytes_try_from(a[2]) ELSE Ok("")
        channel == Bytes_try_from(a[len - 1])
        payload == MessagePayload_try_from(a[len])
    IN CASE v.t # "Array" -> Err("Unexpected value")
         [] len \notin {3, 4} -> Err("Array needs to be 3 or 4 elements")
         [] mtype.r = "Err" -> mtype
         [] pat.r = "Err" -> pat
         [] channel.r = "Err" -> channel
         [] payload.r = "Err" -> payload
         [] mtype.v \in TYPE_SUBSCRIBE -> Ok(Subscribed(channel.v))
         [] mtype.v \in TYPE_UNSUBSCRIBE -> Ok(UnSubscribed(channel.v))
         [] mtype.v \in TYPE_MESSAGE ->
               IF payload.v.left
               THEN Ok(Message(IF len = 4 THEN Some(pat.v) ELSE None, channel.v,
                               payload.v.b))
               ELSE Err("Subscription message payload is not bytes")
         [] OTHER -> Err("Subscription message type unknown")

MaxElems == 5   \* elements of an array handed to the conversion

\* The integers converted: around the bounds of every target type
Integers64 ==
    {<<a, b, c, d>> : a \in {-32768, -1, 0, 32767}, b \in {0, 1, 65535},
                      c \in {0, 32767, 32768, 65535}, d \in {0, 65535}}

One == <<0, 0, 0, 1>>

\* The first element of an array: the nine type words, another word, and
\* values that are no bulk string
Words ==
    {RespBytes(w) : w \in TYPE_SUBSCRIBE \cup TYPE_UNSUBSCRIBE \cup TYPE_MESSAGE}
        \cup {RespBytes("publish"), RespString("message"), RespInteger(One)}

Elems == {RespBytes("x"), RespBytes("y"), RespInteger(One), Nil}

Arrays ==
    {RespArray(<<>>)}
        \cup {RespArray(<<w>> \o rest) :
                 w \in Words, rest \in SeqsUpTo(Elems, MaxElems - 1)}

ConvInputs ==
    {RespInteger(x) : x \in Integers64} \cup Arrays
        \cup {Nil, RespBytes("message"), RespString("OK"), RespError("ERR")}

\* try_from::<$int_ty>(val)
TryFromInteger ==
    /\ val.t # "none" /\ target = "none"
    /\ \E ty \in IntTypes :
          /\ target' = ty
          /\ out' = int_try_from(val, Width(ty, ptr))
    /\ UNCHANGED <<clientVars, codecVars, val, ptr>>

\* SubscribeItem::try_from(val)
TryFromSubscribeItem ==
    /\ val.t # "none" /\ target = "none"
    /\ target' = "SubscribeItem"
    /\ out' = SubscribeItem_try_from(val)
    /\ UNCHANGED <<clientVars, codecVars, val, ptr>>

\* The to_output of the commands whose Output is usize (KeysCommand,
\* HSetCommand, HDelCommand, LPushCommand): val as usize
usize_to_output(v, bits) ==
    IF v.t = "Integer" THEN Ok(as(v.i, Width("usize", bits)))
    ELSE Err("Cannot parse response")

\* KeysCommand::to_output(val), and the three like it
ToOutputUsize ==
    /\ val.t # "none" /\ target = "none"
    /\ target' = "KeysCommand"
    /\ out' = usize_to_output(val, ptr)
    /\ UNCHANGED <<clientVars, codecVars, val, ptr>>

(***************************************************************************)
(* Specification                                                           *)
(***************************************************************************)

\* One handle, the one the connector returns
ExtIdle == handles = 1 /\ pushed = 0 /\ sent = <<>> /\ items = <<>> /\ rx = <<>>

(* The handles of the shared Client *)
MaxHandles == 2

\* #[derive(Clone)] on Client: one more handle on the same io and queue
CloneClient ==
    /\ Usable /\ flavor = "shared"
    /\ handles < MaxHandles
    /\ handles' = handles + 1
    /\ UNCHANGED <<clientSt, codecVars, convVars, pushed, subVars, rx>>

\* A handle is dropped.  Client has no Drop: its IoRef, its Rc of the queue,
\* its OnDisconnect and its pool are released; the read task keeps the io
\* and its own Rc of the queue.
DropClient ==
    /\ Usable /\ flavor = "shared"
    /\ handles' = handles - 1
    /\ UNCHANGED <<clientSt, codecVars, convVars, pushed, subVars, rx>>

Init ==
    /\ flavor \in {"shared", "simple"}
    /\ passwords \in SeqsUpTo({"bad", "good"}, MaxPw)
    /\ cpc = "start" /\ pwi = 0 /\ authId = 0 /\ cres = "none"
    /\ io = "open"
    /\ wire = <<>> /\ inbound = <<>> /\ queue = <<>>
    /\ task = "running"
    /\ n = 0
    /\ kind = [i \in Ids |-> "none"]
    /\ isOpen = [i \in Ids |-> TRUE]
    /\ slot = [i \in Ids |-> Slot("none", NoFrame)]
    /\ accepted = <<>>
    /\ peerGone = FALSE
    /\ cin = [t |-> "none", k |-> "none"] /\ orig = <<>> /\ stream = <<>> /\ buf = <<>>
    /\ dres = [r |-> "none", item |-> NoItem]
    /\ val = NoItem /\ target = "none" /\ ptr = 64 /\ out = NoItem
    /\ ExtIdle

Next ==
    \/ ConnectFailed \/ ConnectBegin \/ AuthStep
    \/ Exec \/ Flushdb \/ ServiceCall \/ DropFuture
    \/ ReadOk \/ ReadBackpressure \/ ReadDecoder \/ ReadPeerGone
    \/ SExec \/ SRecvOk \/ SRecvBackpressure \/ SRecvDecoder \/ SRecvPeerGone
    \/ ServerReply \/ PeerClose \/ IoStopped

Spec == Init /\ [][Next]_vars

\* The client as constructed, for the specifications of the codec and of the
\* conversions, which make no call on it
ClientIdle ==
    /\ flavor = "shared" /\ passwords = <<>>
    /\ cpc = "start" /\ pwi = 0 /\ authId = 0 /\ cres = "none"
    /\ io = "open"
    /\ wire = <<>> /\ inbound = <<>> /\ queue = <<>>
    /\ task = "running"
    /\ n = 0
    /\ kind = [i \in Ids |-> "none"]
    /\ isOpen = [i \in Ids |-> TRUE]
    /\ slot = [i \in Ids |-> Slot("none", NoFrame)]
    /\ accepted = <<>>
    /\ peerGone = FALSE
    /\ ExtIdle

CodecInit ==
    /\ ClientIdle
    /\ cin \in CodecInputs
    /\ orig = <<>> /\ stream = <<>> /\ buf = <<>>
    /\ dres = [r |-> "none", item |-> NoItem]
    /\ val = NoItem /\ target = "none" /\ ptr = 64 /\ out = NoItem

CodecNext == CodecEncode \/ PeerSend \/ Arrive \/ Decode

CodecSpec == CodecInit /\ [][CodecNext]_vars

\* The decoder on a buffer that holds several frames
FramesInit ==
    /\ ClientIdle
    /\ cin \in FrameInputs
    /\ orig = <<>> /\ stream = <<>> /\ buf = <<>>
    /\ dres = [r |-> "none", item |-> NoItem]
    /\ val = NoItem /\ target = "none" /\ ptr = 64 /\ out = NoItem

FramesNext == PeerSendFrames \/ Decode

FramesSpec == FramesInit /\ [][FramesNext]_vars

ConvInit ==
    /\ ClientIdle
    /\ cin = [t |-> "none", k |-> "none"] /\ orig = <<>> /\ stream = <<>> /\ buf = <<>>
    /\ dres = [r |-> "none", item |-> NoItem]
    /\ val \in ConvInputs
    /\ target = "none"
    /\ ptr \in (IF val.t = "Integer" THEN {32, 64} ELSE {64})
    /\ out = NoItem

ConvNext == TryFromInteger \/ TryFromSubscribeItem \/ ToOutputUsize

ConvSpec == ConvInit /\ [][ConvNext]_vars

\* The read task and the io driver are scheduled by the runtime whenever
\* they can take a step
ReadTask == ReadOk \/ ReadBackpressure \/ ReadDecoder \/ ReadPeerGone

FairSpec == Spec /\ WF_vars(ReadTask) /\ WF_vars(IoStopped)

\* The shared Client and its handles, connected without password
PureIdle ==
    /\ cin = [t |-> "none", k |-> "none"] /\ orig = <<>> /\ stream = <<>> /\ buf = <<>>
    /\ dres = [r |-> "none", item |-> NoItem]
    /\ val = NoItem /\ target = "none" /\ ptr = 64 /\ out = NoItem

DropInit == ClientIdle /\ PureIdle

DropNext ==
    \/ ConnectBegin
    \/ Exec
    \/ ReadOk \/ ReadBackpressure \/ ReadDecoder \/ ReadPeerGone
    \/ ServerReply \/ PeerClose \/ IoStopped
    \/ CloneClient \/ DropClient

DropSpec == DropInit /\ [][DropNext]_vars

\* The shared Client with a server that also sends frames nobody asked for
PushInit == ClientIdle /\ PureIdle

PushNext ==
    \/ ConnectBegin
    \/ Exec
    \/ ReadOk \/ ReadBackpressure \/ ReadDecoder \/ ReadPeerGone
    \/ ServerReply \/ ServerPush \/ PeerClose \/ IoStopped

PushSpec == PushInit /\ [][PushNext]_vars

\* A SimpleClient connected without password, turned into a subscription
SubInit ==
    /\ flavor = "simple" /\ passwords = <<>>
    /\ cpc = "done" /\ pwi = 0 /\ authId = 0 /\ cres = "client"
    /\ io = "open"
    /\ wire = <<>> /\ inbound = <<>> /\ queue = <<>>
    /\ task = "running"
    /\ n = 0
    /\ kind = [i \in Ids |-> "none"]
    /\ isOpen = [i \in Ids |-> TRUE]
    /\ slot = [i \in Ids |-> Slot("none", NoFrame)]
    /\ accepted = <<>>
    /\ peerGone = FALSE
    /\ ExtIdle /\ PureIdle

SubNext ==
    \/ Subscribe \/ SubSend
    \/ SubRecvOk \/ SubRecvBackpressure \/ SubRecvDecoder \/ SubRecvPeerGone
    \/ SubServerReply \/ ServerMessage \/ PeerClose

SubSpec == SubInit /\ [][SubNext]_vars

\* The same, with the subscription as the first use of the connection and
\* possibly turned back into a client that is used with exec
ReclaimNext ==
    \/ FirstSubscribe \/ SubSend \/ IntoClient
    \/ SubRecvOk \/ SubRecvBackpressure \/ SubRecvDecoder \/ SubRecvPeerGone
    \/ ReclaimedExec \/ SRecvOk \/ SRecvBackpressure \/ SRecvDecoder \/ SRecvPeerGone
    \/ SubServerReply \/ ServerMessage \/ SimpleServerReply \/ PeerClose

ReclaimSpec == SubInit /\ [][ReclaimNext]_vars

\* A SimpleClient connected without password whose callers use exec and also
\* send on its own, in any interleaving
SimpleNext ==
    \/ SExec \/ SSend
    \/ SRecvOk \/ SRecvBackpressure \/ SRecvFlushed \/ SRecvDecoder \/ SRecvPeerGone
    \/ Repoll
    \/ ServerReply \/ PeerClose

SimpleSpec == SubInit /\ [][SimpleNext]_vars

\* The Transport future over a fresh connection, one sender of its channel
TransportInit ==
    /\ flavor = "transport" /\ passwords = <<>>
    /\ cpc = "done" /\ pwi = 0 /\ authId = 0 /\ cres = "client"
    /\ io = "open"
    /\ wire = <<>> /\ inbound = <<>> /\ queue = <<>>
    /\ task = "running"
    /\ n = 0
    /\ kind = [i \in Ids |-> "none"]
    /\ isOpen = [i \in Ids |-> TRUE]
    /\ slot = [i \in Ids |-> Slot("none", NoFrame)]
    /\ accepted = <<>>
    /\ peerGone = FALSE
    /\ ExtIdle /\ PureIdle

TransportNext ==
    \/ TSubmit \/ TDropSender
    \/ TWrite \/ TRxClosed \/ TFlushFailed
    \/ TReadOk \/ TReadErr \/ TReadNone
    \/ ServerReply \/ PeerClose

TransportSpec == TransportInit /\ [][TransportNext]_vars

\* Both pipelines, the shared Client and the Transport, each over its own
\* connection
PipelineInit == Init \/ TransportInit

PipelineNext == Next \/ TransportNext

PipelineSpec == PipelineInit /\ [][PipelineNext]_vars

(***************************************************************************)
(* Properties                                                              *)
(***************************************************************************)

Shared(id) == flavor = "shared" /\ kind[id] \in {"exec", "call", "auth"}

InQueue(id) == \E i \in 1..Len(queue) : queue[i] = id

\* C1: on the shared Client every caller that receives a frame receives the
\* frame the server sent in answer to its own request: the i-th request
\* accepted is resolved with the i-th frame decoded, two callers' responses
\* are never swapped.
C1_NoSwap ==
    \A id \in Ids : Shared(id) /\ slot[id].st = "ok" => slot[id].fr.req = id

\* Two pipelined exec calls, both answered
C1_Witness ==
    /\ flavor = "shared"
    /\ \E a, b \in Ids :
          /\ a < b /\ kind[a] = "exec" /\ kind[b] = "exec"
          /\ ExecOut(a) = "Ok" /\ ExecOut(b) = "Ok"

C2_Step ==
    peerGone' =>
        \A id \in Ids :
            kind'[id] \in {"exec", "auth"} =>
                /\ ExecOut(id)' # "pending"
                /\ ExecOut(id) = "pending" => ExecOut(id)' = "PeerGone"
                /\ ExecOut(id)' = "Ok" => ExecOut(id) = "Ok"

\* C2: when the read task of the shared Client observes PeerGone, every exec
\* future still pending resolves to PeerGone, and from then on no exec future
\* is pending and none resolves to Ok.
C2_PeerGoneDrain == [][flavor = "shared" => C2_Step]_vars

\* The read task observed PeerGone with two exec calls in flight
C2_Witness ==
    /\ flavor = "shared" /\ peerGone
    /\ \E a, b \in Ids :
          /\ a # b /\ kind[a] = "exec" /\ kind[b] = "exec"
          /\ isOpen[a] /\ isOpen[b]
          /\ slot[a].st = "cancel" /\ slot[b].st = "cancel"

C3_Step ==
    ReadDecoder =>
        /\ queue # <<>> /\ slot[Head(queue)].st = "wait"
              => slot'[Head(queue)].st = "parse"
        /\ \A w \in Ids :
              (\E i \in 2..Len(queue) : queue[i] = w) /\ slot[w].st = "wait"
                  => CommandResult(w)' = "PeerGone"
        /\ queue' = <<>>
        /\ io' # "open"
        /\ io' = "stopped" => task' = "done"

\* C3: on a decode error the read task delivers the parse error to the head
\* waiter, every other waiter in the queue resolves to PeerGone, the queue is
\* left empty, the stream is shut down, and the read task terminates once
\* the shutdown has completed.
C3_DecodeError ==
    /\ [][C3_Step]_vars
    /\ (flavor = "shared" /\ io = "stopping") ~> (task = "done")

\* A decode error with two waiters: the head got the parse error, the other
\* was cancelled, the task is gone
C3_Witness ==
    /\ flavor = "shared" /\ task = "done" /\ ~peerGone /\ queue = <<>>
    /\ \E a, b \in Ids :
          /\ a < b /\ slot[a].st = "parse" /\ slot[b].st = "cancel"

\* C4: exec on a closed connection fails with PeerGone without encoding the
\* request and without pushing a sender: the queue is the same before and
\* after the call.
C4_NoEnqueueWhenClosed ==
    [][Exec /\ io # "open" =>
          /\ \A id \in Ids : id = n + 1 => ExecOut(id)' = "PeerGone"
          /\ wire' = wire
          /\ queue' = queue]_vars

\* C5: every submission made through exec, flushdb or Service::call after the
\* read task has terminated is rejected with PeerGone.
C5_RejectedAfterTermination ==
    [][(Exec \/ Flushdb \/ ServiceCall) /\ task = "done" =>
          \A id \in Ids : id = n + 1 => Out(id)' = "PeerGone"]_vars

C6_Step ==
    /\ DropFuture => queue' = queue
    /\ ReadOk /\ queue # <<>> /\ slot[Head(queue)].st = "dropped"
          => /\ queue' = Tail(queue)
             /\ inbound' = Tail(inbound)
             /\ slot' = slot

\* C6: dropping the future of a call leaves its sender on the queue; the
\* response to that request is popped with it and discarded, and every caller
\* behind a dropped call still receives the response to its own request.
C6_DropKeepsSlot ==
    /\ [][C6_Step]_vars
    /\ [](\A d, id \in Ids :
             Shared(id) /\ d < id /\ slot[d].st = "dropped" /\ slot[id].st = "ok"
                 => slot[id].fr.req = id)

\* A dropped call whose response was popped, and a later call answered
C6_Witness ==
    /\ flavor = "shared" /\ io = "open" /\ task = "running"
    /\ \E d, id \in Ids :
          /\ d < id /\ slot[d].st = "dropped" /\ ~InQueue(d)
          /\ kind[id] = "exec" /\ ExecOut(id) = "Ok"

C7_Step ==
    ReadOk /\ queue # <<>> /\ Head(inbound).k = "err" =>
        /\ io' = io /\ task' = task
        /\ queue' = Tail(queue)
        /\ \A id \in Ids : id # Head(queue) => slot'[id] = slot[id]
        /\ \A h \in Ids :
              h = Head(queue) /\ kind[h] = "exec" /\ ExecOut(h) = "pending"
                  => ExecOut(h)' = "CommandError"

\* C7: an Error frame gives a CommandError to the caller whose request it
\* answers and to nobody else; the connection stays open, the queue keeps its
\* order and the other calls in flight are left as they are.
C7_ServerErrorIsLocal ==
    /\ [][C7_Step]_vars
    /\ [](\A id \in Ids :
             Shared(id) /\ kind[id] = "exec" =>
                 (ExecOut(id) = "CommandError"
                     <=> isOpen[id] /\ slot[id].st = "ok"
                         /\ slot[id].fr = [req |-> id, k |-> "err"]))

\* One of two pipelined calls got the server's error, the other its value
C7_Witness ==
    /\ flavor = "shared" /\ io = "open" /\ task = "running"
    /\ \E a, b \in Ids :
          /\ a < b /\ kind[a] = "exec" /\ kind[b] = "exec"
          /\ ExecOut(a) = "CommandError" /\ ExecOut(b) = "Ok"

C8_Step ==
    (Exec \/ Flushdb \/ ServiceCall) /\ slot'[n + 1].st = "encerr" =>
        /\ queue' = queue
        /\ \A id \in Ids :
              IF id = n + 1 THEN Out(id)' = "EncodeErr" ELSE slot'[id] = slot[id]

\* C8: a submission whose encoding fails is failed with the encode error at
\* once, pushes no sender, and leaves the waiters of the queue in place; they
\* later receive their own responses.
C8_EncodeFailure ==
    /\ [][C8_Step]_vars
    /\ [](\A e, id \in Ids :
             Shared(id) /\ slot[e].st = "encerr"
                 => /\ ~InQueue(e)
                    /\ slot[id].st = "ok" => slot[id].fr.req = id)

\* A failed encoding between two calls; the earlier call was in flight at the
\* time and has received its response, the later call is in flight
C8_Witness ==
    /\ flavor = "shared"
    /\ \E a, e, b \in Ids :
          /\ a < e /\ e < b
          /\ slot[e].st = "encerr"
          /\ slot[a].st = "ok" /\ InQueue(b)

AuthIds == {id \in Ids : kind[id] = "auth"}

\* The server answered AUTH bad with an error frame and AUTH good with +OK,
\* and the stream did not fail
C9_ServerAnswers ==
    /\ io = "open"
    /\ \A id \in AuthIds : slot[id].st = "ok" /\ slot[id].fr.k \in {"err", "OK"}

\* C9: with the passwords [bad, good], the server refusing bad with an error
\* frame and accepting good, connect and connect_simple send AUTH bad, then
\* AUTH good, and return a client.
C9_AuthFlow ==
    passwords = <<"bad", "good">> /\ cpc = "done" /\ C9_ServerAnswers
        => /\ cres = "client"
           /\ Len(accepted) >= 2
           /\ accepted[1].cmd = "AUTHbad" /\ accepted[2].cmd = "AUTHgood"

Accepted(id) == slot[id].st = "ok" /\ slot[id].fr = [req |-> id, k |-> "OK"]

\* C10: connect and connect_simple hand out a client only if no password is
\* configured or the server answered +OK to one of the AUTH commands; with a
\* password configured and none accepted the result is an error.
C10_ClientOnlyIfAuthorized ==
    /\ cres = "client" => passwords = <<>> \/ \E id \in AuthIds : Accepted(id)
    /\ cpc = "done" /\ passwords # <<>> /\ ~(\E id \in AuthIds : Accepted(id))
          => cres \in {"Unauthorized", "Command", "Connect"}

\* The second password was accepted after the first was refused
C10_Witness ==
    /\ cres = "client" /\ Len(passwords) = 2 /\ pwi = 2
    /\ slot[1].st = "ok" /\ ~Accepted(1) /\ Accepted(2)

\* Every AUTH command sent was answered by the server with a frame
Answered == \A id \in AuthIds : slot[id].st = "ok"

\* C11: when none of the configured passwords is accepted, connect and
\* connect_simple fail with ConnectError::Unauthorized, also when the server
\* answers an AUTH command with an error frame.
C11_Unauthorized ==
    /\ cpc = "done" /\ passwords # <<>> /\ AuthIds # {}
    /\ Answered /\ ~(\E id \in AuthIds : Accepted(id))
    => cres = "Unauthorized"

\* The AUTH in flight was failed by the transport: the peer went away or the
\* reply did not decode
TransportFailed(id) == slot[id].st \in {"cancel", "parse"}

\* C12: a transport-level failure (peer gone or decode error) while the AUTH
\* loop waits for a reply makes connect and connect_simple fail with
\* ConnectError::Connect.
C12_TransportIsConnect ==
    cpc = "done" /\ (\E id \in AuthIds : TransportFailed(id)) => cres = "Connect"

C13_Step ==
    ConnectBegin /\ passwords = <<>> =>
        /\ cpc' = "done" /\ cres' = "client"
        /\ n' = 0 /\ wire' = <<>> /\ accepted' = <<>> /\ queue' = <<>>

\* C13: with an empty password list connect and connect_simple send no AUTH
\* command: the client is returned as soon as the stream is established, with
\* nothing written to the stream and no inflight request.
C13_NoAuthWithoutPassword ==
    /\ [][C13_Step]_vars
    /\ [](passwords = <<>> =>
             /\ AuthIds = {}
             /\ \A i \in 1..Len(accepted) : accepted[i].cmd = "CMD")

\* The client of a connector without passwords, just returned
C13_Witness ==
    /\ passwords = <<>> /\ cpc = "done" /\ cres = "client"
    /\ n = 0 /\ wire = <<>> /\ queue = <<>>

(***************************************************************************)
(* Properties of the codec                                                 *)
(***************************************************************************)

\* The response frame a request frame is the encoding of
RECURSIVE Image(_)
Image(req) ==
    CASE req.t = "Array" -> RespArray([i \in 1..Len(req.a) |-> Image(req.a[i])])
      [] req.t \in {"BulkString", "BulkStatic"} -> RespBytes(req.b)
      [] req.t = "BulkInteger" -> RespBytes(itoa(req.i))
      [] req.t = "String" -> RespString(req.s)
      [] req.t = "Integer" -> RespInteger(req.i)

\* The frame the input is a valid encoding of, NoItem if it is none
Expected == IF cin.k = "req" THEN Image(cin.req) ELSE cin.frame

ProperPrefix(b, all) == Len(b) < Len(all) /\ b = SubSeq(all, 1, Len(b))

\* C14: Codec.decode on a buffer that holds only a proper prefix of a valid
\* frame returns NeedMore and leaves the buffer byte for byte unchanged, and
\* once the rest of the frame has been appended, decoding again yields the
\* full frame; for every frame type, arrays with complete first children and
\* an incomplete later child included.
C14_IncrementalDecode ==
    /\ [][Decode /\ Expected # NoItem /\ ProperPrefix(buf, orig)
             => dres'.r = "None" /\ buf' = buf]_vars
    /\ [][Decode /\ Expected # NoItem /\ stream = <<>> /\ dres.r \in {"none", "None"}
             => dres' = [r |-> "Some", item |-> Expected]]_vars

\* C15: for every request frame built from bulk strings, integers, simple
\* strings (text without CR LF) and arrays of these, decoding the bytes
\* produced by Codec.encode yields the equivalent response frame and consumes
\* the whole encoding.
C15_RoundTrip ==
    [][Decode /\ cin.k = "req" /\ buf = orig
          => /\ dres' = [r |-> "Some", item |-> Image(cin.req)]
             /\ buf' = <<>>]_vars

\* An array holding an array and a bulk string with CR LF inside, encoded,
\* received whole and decoded in one call
C15_Witness ==
    /\ cin.k = "req" /\ cin.req.t = "Array" /\ Len(cin.req.a) = 2
    /\ cin.req.a[1].t = "Array" /\ Len(cin.req.a[1].a) = MaxArr
    /\ cin.req.a[2] = ReqBulkString(<<CR, LF>>)
    /\ dres = [r |-> "Some", item |-> Image(cin.req)]
    /\ buf = <<>> /\ stream = <<>>

\* The header line of the buffer, for a buffer that starts with one of the
\* bytes announcing a length
LengthOf(b) ==
    IF Len(b) > 0 /\ b[1] \in {"$", "*"} /\ decode_length(b, 1).r = "Some"
    THEN decode_length(b, 1).int
    ELSE 0

\* C16: Codec.decode yields Nil exactly for the length -1 of a bulk string
\* and of an array; every other negative bulk or array length is a parse
\* error, and no other input decodes to Nil.
C16_NilOnlyMinusOne ==
    [][Decode =>
          /\ dres'.item = Nil <=> LengthOf(buf) = -1
          /\ LengthOf(buf) < -1 => dres'.r = "Err"]_vars

\* $-1 or *-1 was decoded to Nil
C16_Witness ==
    /\ cin.k = "raw" /\ dres = [r |-> "Some", item |-> Nil]
    /\ buf = <<>> /\ stream = <<>>

\* The buffer holds a bulk string header of length n >= 0, n more bytes and
\* two bytes after them that are not CR LF
BadTerminator(b) ==
    /\ Len(b) > 0 /\ b[1] = "$"
    /\ LET len == decode_length(b, 1)
       IN /\ len.r = "Some" /\ len.int >= 0
          /\ Len(b) >= len.pos + len.int + 2
          /\ SubSeq(b, len.pos + len.int + 1, len.pos + len.int + 2) # <<CR, LF>>

\* C17: decoding a bulk string of declared length n consumes exactly n+2
\* bytes after the header line, and the last two of them are required to be
\* CR LF: n payload bytes followed by two other bytes are not accepted as a
\* valid frame.
C17_BulkTerminator ==
    /\ [][Decode /\ dres'.r = "Some" /\ dres'.item.t = "Bytes"
             => Len(buf) - Len(buf') = decode_length(buf, 1).pos + Len(dres'.item.b) + 2]_vars
    /\ [][Decode /\ BadTerminator(buf) => dres'.r # "Some"]_vars

\* The payloads of the simple strings and errors of a frame, those of the
\* children of an array included
RECURSIVE Payloads(_)
Payloads(item) ==
    CASE item.t \in {"String", "Error"} -> {item.s}
      [] item.t = "Array" -> UNION {Payloads(item.a[i]) : i \in 1..Len(item.a)}
      [] OTHER -> {}

\* C36: every simple-string or error payload produced by Codec.decode
\* contains no CR byte and no LF byte.
C36_NoCrLfInPayload ==
    dres.r = "Some" =>
        \A s \in Payloads(dres.item) : \A i \in 1..Len(s) : s[i] \notin {CR, LF}

\* The frame the peer sent
FrameOf(x) == IF x.k = "req" THEN Image(x.req) ELSE x.frame

\* C38: when the buffer holds two or more complete frames back to back, one
\* Codec.decode call returns the first frame and removes exactly the bytes of
\* that frame, and repeated calls return the frames in order; for every type
\* of frame, arrays that end with a bulk string or a simple string included.
C38_BackToBack ==
    [][Decode /\ cin.k = "seq" =>
          \A k \in 1..Len(cin.parts) :
              buf = Rest(cin.parts, k) =>
                  /\ dres' = [r |-> "Some", item |-> FrameOf(cin.parts[k])]
                  /\ buf' = Rest(cin.parts, k + 1)]_vars

\* Three frames arrived together, the first an array that ends with a bulk
\* string or with a simple string; two decode calls later the second frame
\* is the result and the third is what the buffer holds
C38_Witness ==
    /\ cin.k = "seq" /\ Len(cin.parts) = 3
    /\ cin.parts[1].k = "req" /\ cin.parts[1].req.t = "Array"
    /\ Len(cin.parts[1].req.a) >= 2
    /\ cin.parts[1].req.a[Len(cin.parts[1].req.a)].t \in {"BulkString", "String"}
    /\ cin.parts[2].k = "req" /\ cin.parts[2].req.t = "Array"
    /\ orig = Rest(cin.parts, 1)
    /\ buf = Rest(cin.parts, 3) /\ buf # <<>>
    /\ dres = [r |-> "Some", item |-> FrameOf(cin.parts[2])]

(***************************************************************************)
(* Properties of the conversions                                           *)
(***************************************************************************)

Le(x, y) == x = y \/ Lt(x, y)

\* x lies in the range of the integer type
InRange(x, ty) ==
    CASE ty = "i32" -> Le(<<-1, 65535, 32768, 0>>, x) /\ Le(x, <<0, 0, 32767, 65535>>)
      [] ty = "u32" -> Le(Zero, x) /\ Le(x, <<0, 0, 65535, 65535>>)
      [] ty = "u64" -> Le(Zero, x)
      [] ty = "i64" -> TRUE

\* C18: converting Response::Integer(x) to i32, u32, u64, isize or usize
\* succeeds with the value x exactly when x lies in the range of the target
\* type and returns an error otherwise, never a wrapped or truncated value.
C18_IntegerBounds ==
    target \in IntTypes /\ val.t = "Integer" =>
        IF InRange(val.i, Width(target, ptr))
        THEN out = Ok(val.i)
        ELSE out.r = "Err"

\* 2^32 was asked for as a u32, and -2^31 - 1 as an isize of 32 bits
C18_Witness ==
    \/ target = "u32" /\ val = RespInteger(<<0, 1, 0, 0>>) /\ out.r = "Err"
    \/ /\ target = "isize" /\ ptr = 32
       /\ val = RespInteger(<<-1, 65535, 32767, 65535>>) /\ out.r = "Err"

\* C37: a command whose output type is usize (EXISTS and DEL, HSET, HDEL,
\* LPUSH and RPUSH) returns an output error, never a wrapped value, when the
\* server replies with an Integer frame that is negative.
C37_NegativeCountIsError ==
    target = "KeysCommand" /\ val.t = "Integer" /\ Lt(val.i, Zero) => out.r = "Err"

IsBytes(v) == v.t = "Bytes"

\* The type word of an array is the given one of the nine
Word(v, words) == IsBytes(v.a[1]) /\ v.a[1].b \in words

\* C19: a 3-element array whose type word is subscribe, ssubscribe or
\* psubscribe gives Subscribed(element 1), one whose type word is
\* unsubscribe, sunsubscribe or punsubscribe gives UnSubscribed(element 1),
\* and one whose type word is message, smessage or pmessage gives a Message
\* with no pattern, channel = element 1 and payload = element 2; a 4-element
\* array gives pattern = element 1, channel = element 2 and payload =
\* element 3; a Message carries a pattern if and only if the array has 4
\* elements.  The channel, pattern and payload are bulk strings, the last
\* element of a subscribe or unsubscribe array is a bulk string or an integer.
C19_Demultiplex ==
    target = "SubscribeItem" /\ val.t = "Array" =>
        LET a == val.a
            three == Len(a) = 3 /\ IsBytes(a[2])
            four == Len(a) = 4 /\ IsBytes(a[2]) /\ IsBytes(a[3]) /\ IsBytes(a[4])
        IN /\ (three /\ a[3].t \in {"Bytes", "Integer"} /\ Word(val, TYPE_SUBSCRIBE))
                => out = Ok(Subscribed(a[2].b))
           /\ (three /\ a[3].t \in {"Bytes", "Integer"} /\ Word(val, TYPE_UNSUBSCRIBE))
                => out = Ok(UnSubscribed(a[2].b))
           /\ (three /\ IsBytes(a[3]) /\ Word(val, TYPE_MESSAGE))
                => out = Ok(Message(None, a[2].b, a[3].b))
           /\ (four /\ Word(val, TYPE_MESSAGE))
                => out = Ok(Message(Some(a[2].b), a[3].b, a[4].b))
           /\ (out.r = "Ok" /\ out.v.t = "Message")
                => (out.v.pattern.some <=> Len(a) = 4)

\* A pmessage of 4 elements was converted, pattern and channel differing
C19_Witness ==
    /\ target = "SubscribeItem"
    /\ val = RespArray(<<RespBytes("pmessage"), RespBytes("x"), RespBytes("y"),
                         RespBytes("x")>>)
    /\ out = Ok(Message(Some("x"), "y", "x"))

\* The frame is an array of 3 or 4 elements with one of the nine type words
Recognized(v) ==
    /\ v.t = "Array" /\ Len(v.a) \in {3, 4}
    /\ Word(v, TYPE_SUBSCRIBE \cup TYPE_UNSUBSCRIBE \cup TYPE_MESSAGE)

\* C20: a frame received in subscription mode that is not an array of 3 or 4
\* elements, or whose type word is not one of the nine recognized words,
\* yields an error for that item and never a Subscribed, UnSubscribed or
\* Message item.
C20_ProtocolError ==
    target = "SubscribeItem" /\ ~Recognized(val) => out.r = "Err"

\* A 3-element array with an unknown type word was refused
C20_Witness ==
    /\ target = "SubscribeItem"
    /\ val = RespArray(<<RespBytes("publish"), RespBytes("x"), RespBytes("y")>>)
    /\ out.r = "Err"

(***************************************************************************)
(* Properties of the clients, continued                                    *)
(***************************************************************************)

\* The requests written to the stream whose response no caller has received
Outstanding == Len(wire) + Len(inbound)

\* C21: a SimpleClient has at most one outstanding request at any time, under
\* every interleaving of exec and send calls on the same client, so each exec
\* returns the reply to its own request.
C21_OneOutstanding ==
    flavor = "simple" =>
        /\ Outstanding <= 1
        /\ \A id \in Ids :
              kind[id] = "sexec" /\ slot[id].st = "ok" => slot[id].fr.req = id

C24_Step ==
    Exec /\ io = "open" /\ slot'[n + 1].st # "encerr" =>
        /\ wire' = Append(wire, Request(n + 1, "CMD"))
        /\ queue' = Append(queue, n + 1)

\* C24: Client.exec encodes the request and takes its inflight slot when exec
\* is called, not when the returned future is first polled: the requests
\* reach the server in the order of the exec calls, and an exec whose future
\* is never awaited is still sent, ahead of a later exec that is awaited.
C24_EncodedAtCall ==
    /\ [][C24_Step]_vars
    /\ [](\A i, j \in 1..Len(accepted) : i < j => accepted[i].req < accepted[j].req)
    /\ [](\A id \in Ids :
             Shared(id) /\ kind[id] = "exec" /\ isOpen[id] /\ slot[id].st = "dropped"
                 => \E i \in 1..Len(accepted) : accepted[i].req = id)

\* An exec whose future was dropped unpolled, its request sent first, and a
\* later exec that was awaited and answered
C24_Witness ==
    /\ flavor = "shared" /\ Len(accepted) >= 2
    /\ \E a, b \in Ids :
          /\ kind[a] = "exec" /\ slot[a].st = "dropped"
          /\ kind[b] = "exec" /\ ExecOut(b) = "Ok"
          /\ accepted[1].req = a /\ accepted[2].req = b

\* C25: the connection state of a shared Client only moves forward through
\* Open, Draining, Closed: Closed is terminal, and once is_connected() has
\* returned false it never returns true again.
C25_StateMonotone ==
    [][flavor = "shared" =>
          /\ ~is_connected => ~is_connected'
          /\ io = "stopped" => io' = "stopped"]_vars

\* The connection went through Draining to Closed after a decode error, and
\* an exec made after that saw it closed
C25_Witness ==
    /\ flavor = "shared" /\ io = "stopped" /\ task = "done" /\ ~peerGone
    /\ \E id \in Ids : kind[id] = "exec" /\ ~isOpen[id]

\* C27: every sender pushed on the inflight FIFO of the shared Client is
\* eventually removed from it, none stays forever, in particular none pushed
\* at or after the termination of the read task.  Only the read task removes
\* senders, so a sender in the FIFO of a terminated read task stays forever.
C27_NoSenderLeft ==
    flavor = "shared" /\ task = "done" => queue = <<>>

C28_Step ==
    /\ \A id \in Ids :
          Shared(id) /\ slot[id].st \in {"ok", "parse", "cancel"}
              => slot'[id] = slot[id]
    /\ ReadOk => /\ inbound' = Tail(inbound)
                 /\ \A a, b \in Ids :
                       slot'[a] # slot[a] /\ slot'[b] # slot[b] => a = b

\* C28: each inflight slot receives exactly one result: a decoded frame is
\* delivered to at most one waiter, and no waiter is sent two results.  A
\* sender is on the FIFO once and only as long as it has sent nothing.
C28_ExactlyOneResult ==
    /\ [][C28_Step]_vars
    /\ [](flavor = "shared" =>
             /\ \A i, j \in 1..Len(queue) : queue[i] = queue[j] => i = j
             /\ \A i \in 1..Len(queue) : slot[queue[i]].st \in {"wait", "dropped"})

\* Three calls in flight: the first got a frame, the second the decode
\* error, the third the drain error, one result each
C28_Witness ==
    /\ flavor = "shared" /\ queue = <<>>
    /\ \E a, b, c \in Ids :
          /\ a < b /\ b < c
          /\ slot[a].st = "ok" /\ slot[b].st = "parse" /\ slot[c].st = "cancel"

\* C26: after the last shared Client handle of a connection is dropped, the
\* background task terminates once the read in progress is processed, without
\* waiting for the peer to close the connection: with no handle left, the
\* step of the read task that processes a frame ends the task.
C26_TaskEndsAfterLastDrop ==
    [][handles = 0 /\ ReadOk => task' = "done"]_vars

C29_Step ==
    /\ ReadOk /\ queue = <<>> =>
          /\ inbound' = Tail(inbound)
          /\ UNCHANGED <<io, task, queue, slot, wire>>
    /\ ReadOk /\ queue # <<>> /\ slot[Head(queue)].st = "wait" =>
          slot'[Head(queue)] = Slot("ok", Head(inbound))
    /\ queue = <<>> /\ queue' # <<>> =>
          /\ Len(queue') = 1 /\ Head(queue') = n + 1
          /\ inbound' = inbound

\* C29: a frame decoded while the inflight FIFO is empty is discarded without
\* closing the connection and without changing the FIFO, and it does not
\* shift the correlation of later requests: a request accepted on the empty
\* FIFO is its head, and the head receives the next frame decoded.
C29_UnexpectedDiscarded ==
    [][C29_Step]_vars

\* The server pushed a frame that was decoded and discarded; the only
\* request, accepted since, is the head of the FIFO and the next frame to
\* decode is its own answer
C29_Witness ==
    /\ flavor = "shared" /\ pushed >= 1 /\ n = 1 /\ io = "open"
    /\ queue = <<1>> /\ slot[1].st = "wait"
    /\ Len(inbound) = 1 /\ Head(inbound).req = 1

(* Properties of the subscription stream *)
\* C22: the subscription stream ends if the peer closes: after the peer has
\* closed the connection and recv has reported it, recv returns None (end of
\* stream); it does not go on producing items.
C22_StreamEnds ==
    \A i \in 1..Len(items) :
        i < Len(items) /\ items[i].t = "PeerGone" => items[i + 1].t = "None"

\* The items made of a frame, and their frames
FrameItems == SelectSeq(items, LAMBDA it : it.fr # NoFrame)
FramesOf(its) == [i \in 1..Len(its) |-> its[i].fr]

\* C23: in subscription mode recv delivers the items in the order the server
\* sent the frames: the answers to subscribe and unsubscribe requests arrive
\* on the stream as Subscribed and UnSubscribed items among the Message
\* items, and no frame is lost, duplicated or reordered.
C23_StreamOrder ==
    flavor = "subscription" =>
        /\ sent = FramesOf(FrameItems) \o inbound
        /\ \A i \in 1..Len(FrameItems) :
              LET it == FrameItems[i] IN
                /\ it.fr.k = "sub" =>
                      /\ it.t = "Subscribed"
                      /\ \E j \in 1..Len(accepted) :
                            accepted[j] = Request(it.fr.req, "SUBSCRIBE")
                /\ it.fr.k = "unsub" =>
                      /\ it.t = "UnSubscribed"
                      /\ \E j \in 1..Len(accepted) :
                            accepted[j] = Request(it.fr.req, "UNSUBSCRIBE")
                /\ it.fr.k = "msg" => it.t = "Message"

\* A message published before the answer to a later unsubscribe request:
\* Subscribed, Message, UnSubscribed delivered in that order
C23_Witness ==
    /\ flavor = "subscription" /\ Len(items) >= 3
    /\ items[1].t = "Subscribed" /\ items[2].t = "Message"
    /\ items[3].t = "UnSubscribed"

(* Properties of Transport *)
\* C30: in the write path of Transport a submission whose encoding fails is
\* failed without being placed on the inflight FIFO, and the submissions in
\* flight are not affected: they stay pending, in order, and the transport
\* keeps running.
C30_EncodeFailureIsolated ==
    [][TWrite /\ slot'[Head(rx)].st = "encerr" =>
          /\ queue' = queue
          /\ task' = "running"
          /\ \A i \in 1..Len(queue) : slot'[queue[i]] = slot[queue[i]]]_vars

\* C31: when the read path of Transport gets a decode or I/O error, the
\* waiter at the head of the inflight FIFO receives that error and every
\* other waiter receives PeerGone; the FIFO is then empty and the transport
\* terminates.
C31_ReadErrorDrain ==
    [][TReadErr =>
          /\ queue' = <<>> /\ task' = "done"
          /\ \A i \in 1..Len(queue) :
                slot[queue[i]].st = "wait" =>
                    slot'[queue[i]].st = IF i = 1 THEN "parse" ELSE "cancel"]_vars

\* C32: whenever the future of Transport completes, on any of its exit paths
\* (encode error, flush error, read error, end of stream from the peer,
\* submission channel closed), the inflight FIFO has been drained with an
\* error sent to every waiter: the FIFO is empty and no submission that was
\* written is still waiting.
C32_EmptyAtCompletion ==
    flavor = "transport" /\ task = "done" =>
        /\ queue = <<>>
        /\ \A i \in 1..Len(accepted) : slot[accepted[i].req].st # "wait"

(* Properties of the clients, continued *)
\* C39: whenever the read task of the shared Client terminates, on any of
\* its exit paths, a failed flush after write backpressure included, the
\* inflight FIFO is empty at the step that ends the task.
C39_EmptyAtTermination ==
    [][flavor = "shared" /\ task = "running" /\ task' = "done" => queue' = <<>>]_vars

(* Properties of the two pipelines *)
\* The requests encoded into the write buffer that no frame matched to a
\* waiter has answered, oldest first: those whose answer is on its way, then
\* those the server has not taken
Unanswered ==
    [i \in 1..(Len(inbound) + Len(wire)) |->
        IF i <= Len(inbound) THEN inbound[i].req ELSE wire[i - Len(inbound)].req]

\* C33: while the connection is open and served, the senders in the inflight
\* FIFO correspond one to one and in the same order to the requests that
\* were encoded into the write buffer and are not yet answered; so the
\* length of the FIFO is the number of requests encoded minus the number of
\* frames matched to a waiter.
C33_FifoMatchesRequests ==
    flavor \in {"shared", "transport"} /\ io = "open" /\ task = "running" =>
        /\ queue = Unanswered
        /\ Len(queue) <= Len(accepted)
        /\ \A i \in 1..Len(queue) :
              accepted[Len(accepted) - Len(queue) + i].req = queue[i]

\* Three requests: the first is answered, the answer to the second is on
\* its way and the server has not taken the third
C33_Witness ==
    /\ io = "open" /\ task = "running"
    /\ Len(accepted) = 3 /\ Len(queue) = 2
    /\ Len(inbound) = 1 /\ Len(wire) = 1
    /\ slot[accepted[1].req].st = "ok"

(* Properties of the SimpleClient, continued *)
\* C34: SimpleClient.exec cooperates with write backpressure and still
\* completes: after a receive that reports write backpressure and a flush
\* that succeeds the client goes on to read the next frame, so an exec whose
\* reply has arrived is never left pending with no wake-up registered.
C34_NotParkedWithReply ==
    flavor = "simple" =>
        \A id \in Ids :
            kind[id] = "sexec" /\ inbound # <<>> /\ Head(inbound).req = id
                => slot[id].st # "parked"

(* Properties of the subscription stream, continued *)
\* The first exec made on the client that into_client returned: every call
\* before it is the subscribe or a send of the subscription
FirstExecAfter(id) ==
    /\ id > 1 /\ kind[id] = "sexec"
    /\ \A j \in 1..(id - 1) : kind[j] = "ssend"

\* The answers to requests among the frames the subscription was sent
NReplies == Len(SelectSeq(sent, LAMBDA fr : fr.req > 0))

\* C35: after SubscriptionClient.into_client() the first exec on the returned
\* SimpleClient is answered with the oldest frame not yet delivered on the
\* connection: a frame still buffered from the subscription if there is one,
\* a push frame included, and not the reply to its own command.
C35_FirstExecGetsOldest ==
    \A id \in Ids :
        FirstExecAfter(id) /\ slot[id].st = "ok" =>
            IF Len(sent) > Len(FrameItems)
            THEN /\ slot[id].fr = sent[Len(FrameItems) + 1]
                 /\ slot[id].fr.req # id
            ELSE /\ NReplies < Len(accepted)
                 /\ slot[id].fr.req = accepted[NReplies + 1].req

C40_Step ==
    SubRecvOk =>
        /\ items' = Append(items, RecvItem(Head(inbound)))
        /\ inbound' = Tail(inbound)

\* C40: an item-level error in subscription mode (a frame of unrecognized
\* shape, or a server Error frame) is reported as one Err item and does not
\* end or block the stream: the frame is consumed, and the frames the server
\* sends after it are delivered, in order, by the following recv calls.
C40_ItemErrorIsLocal ==
    /\ [][C40_Step]_vars
    /\ [](flavor = "subscription" =>
             /\ Len(FrameItems) + Len(inbound) = Len(sent)
             /\ \A i \in 1..Len(FrameItems) :
                   /\ FrameItems[i].fr = sent[i]
                   /\ sent[i].k = "err" <=> FrameItems[i].t = "Error"
                   /\ sent[i].k = "val" <=> FrameItems[i].t = "Output"
             /\ \A i \in 1..Len(items) : items[i].t # "None")

\* A server Error frame was reported as an Err item and the message sent
\* after it was delivered by the next recv
C40_Witness ==
    /\ flavor = "subscription" /\ Len(items) >= 2
    /\ items[1].t = "Error" /\ items[2].t = "Message"

====
